---- MODULE Spec2Model ----
(***************************************************************************)
(* A model of the tfw platform's reactive core (mutable cells, listener    *)
(* registries, reactive list/set/map) and of the element tree built on it  *)
(* (invalidate / dirty / validate / render and the Root's frame update).   *)
(*                                                                         *)
(* Every operation is one atomic action: the program is single-threaded    *)
(* and each call runs to completion on the caller's stack.  An action      *)
(* leaves a record of the call it modelled in `call`, the state it started *)
(* from in `pre` and the listener invocations it made, in order, in `out`. *)
(***************************************************************************)
EXTENDS Integers, Sequences, FiniteSets, TLC

VARIABLES
  obj,      \* the part of the program the client drives in this behaviour
  mEq,      \* Mutable: the equality function it was created with
  mCur,     \* Mutable: current
  lEq,      \* list: the equality function it was created with
  elems,    \* list: the elems array
  lIns,     \* list: it has been changed by insert calls only
  sdata,    \* set: the entries of the backing Set, in insertion order
  mdata,    \* per map: the entries of the backing Map, in insertion order
  sel,      \* the Value<T> a SwitchMap follows: which map it selects
  lns,      \* per object: its _listeners array, a sequence of subscription ids
  subs,     \* every subscription made so far, indexed by id
  scn,      \* progress of the client through the spec's end-to-end scenarios
  call,     \* the last call made
  pre,      \* the state the last call started from
  out,      \* the listener invocations the last call made, in order
  autoSize, \* Root: config.autoSize
  content,  \* the leaf: the size its content asks for
  visible,  \* per element: visible.current
  bounds,   \* per element: _bounds
  psize,    \* per element: _psize
  valid,    \* per element: _valid.current
  dirtyRegion, \* per element: _dirtyRegion
  issued,   \* per element: the regions dirty was called with since its last
            \* render call, and since its last render call that went through
  ecall,    \* the last call made on the element tree
  epre,     \* the element state the last call started from
  trace,    \* the calls the last call made inside the tree, in order
  hook,     \* the listener the client has put on an element's valid value:
            \* the element it is on and the element it invalidates
  ui        \* the Root's pointer interactions, hovered elements and focus,
            \* the listeners elements hold on signals, and the last call made
            \* on them with what it delivered

mvars == <<mEq, mCur>>
lvars == <<lEq, elems, lIns>>
svars == <<sdata>>
pvars == <<mdata, sel>>
rvars == <<obj, mvars, lvars, svars, pvars, lns, subs, scn, call, pre, out>>

tvars == <<autoSize, content, visible, bounds, psize, valid, dirtyRegion, issued,
           ecall, epre, trace, hook>>

evars == <<tvars, ui>>

vars == <<rvars, evars>>

----------------------------------------------------------------------------
(* Bounds *)

MaxSubs == 2        \* subscriptions made in one behaviour
MaxSwitchSubs == 1  \* subscriptions made on a SwitchMap in one behaviour
MaxLen == 2         \* elements in the list
MaxFnSubs == 3      \* subscriptions of callbacks that change the registry

----------------------------------------------------------------------------
(* Values *)

\* values held by the Mutable: 0 and 5 as in the spec's scenario, and 6
MVals == {0, 5, 6}

\* equality functions: reference equality, and a caller-supplied coarser one
EqKinds == {"refEquals", "custom"}

\* objects with a listener array of their own
Objects == {"mutable", "list", "set", "mapA", "mapB", "sel", "derived", "size",
            "mapped"}

\* what the client drives: a Mutable, a list, a set, a map, or two maps and
\* a SwitchMap over them (RMap.fromValue(sel, m => m))
Pieces == {"mutable", "list", "set", "map", "switch"}

\* what the client drives when it hands out callbacks that subscribe and
\* unsubscribe (a list whose onChange listeners do so), and when it listens
\* to a Mutable and to a Value derived from it (m.map(v => f(v)))
DispatchPieces == {"reenter", "derive"}

\* the pieces in which the client updates a Mutable
MutablePieces == {"mutable", "derive"}

\* the maps, the keys, and the values the client puts under a key
Maps == {"mapA", "mapB"}
Keys == {"k1", "k2"}
MapVals(m, k) ==
  IF obj = "map" THEN (IF k = "k2" THEN {"a"} ELSE {"a", "b", "B"})
  ELSE IF m = "mapA" THEN (IF k = "k2" THEN {} ELSE {"b", "B"})
  ELSE IF k = "k2" THEN {"a"} ELSE {"b"}

\* the key or element a derived per-key Value watches
Watched == "b"
WatchedKey == "k1"

\* projection functions handed to projectValue: v => v, and v => v.data
Projs == {"id", "data"}

\* the (projection, equality) pairs the client hands to projectValue; on a
\* SwitchMap it calls getValue(key) only
ProjEqs ==
  IF obj = "switch" THEN {<<"id", "refEquals">>}
  ELSE (Projs \X EqKinds) \ {<<"data", "custom">>}

\* elements of the collections; "b" and "B" are two references to equal data
Elems == {"a", "b", "B"}

\* the elements the client puts in the list: two that differ, or, when the
\* list has the custom equality, the two references to equal data
ListElems == IF lEq = "custom" THEN {"b", "B"} ELSE {"a", "b"}

\* what a read of a missing entry yields
Undefined == "undefined"

\* Eq<T>: refEquals is ===; the custom function identifies 5 and 6
Eq(eq, a, b) ==
  IF eq = "refEquals" THEN a = b ELSE (a \div 5) = (b \div 5)

\* the data behind a reference
Data(e) == IF e = "B" THEN "b" ELSE e

\* Eq<E> on elements: refEquals is ===, the custom one compares the data
ElemEq(eq, a, b) ==
  IF eq = "refEquals" THEN a = b ELSE Data(a) = Data(b)

----------------------------------------------------------------------------
(* Sequence helpers *)

Range(s) == {s[i] : i \in 1..Len(s)}

RECURSIVE Without(_, _)
\* the sequence s with every occurrence of x taken out
Without(s, x) ==
  IF s = <<>> THEN <<>>
  ELSE IF Head(s) = x THEN Without(Tail(s), x)
       ELSE <<Head(s)>> \o Without(Tail(s), x)

----------------------------------------------------------------------------
(* Listener registry *)

NoCall == [op |-> "none"]

\* a subscription: the object subscribed to, how (onValue, onEmit, ...),
\* whether its Remover has been invoked, and for a derived per-key Value the
\* key, projection and equality it was created with.  `map` is the map a
\* SwitchMap subscription currently listens to (its closure's `map`).
\* Subscriptions are told apart by their id; the callback may be the same
\* function in all of them.
SubKey(o, kind, key, proj, eq, map) ==
  [obj |-> o, kind |-> kind, rm |-> FALSE, key |-> key, proj |-> proj,
   eq |-> eq, map |-> map]

Sub(o, kind) == SubKey(o, kind, Undefined, "id", "refEquals", o)

\* addListener(listeners, fn): append, the Remover is the new id
addListener(ls, id) == Append(ls, id)

\* the Remover: takes that one subscription out, and nothing else
removeListener(ls, id) == Without(ls, id)

\* one invocation of a callback: the subscription, the event it is about and
\* what the callback reads from the object (the snapshot it is handed)
Invoke(id, ev, seen) == [id |-> id, ev |-> ev, seen |-> seen]

\* what a Value hands its listeners
ValueEv(v) == [type |-> "value", value |-> v]

\* the invocation onValue makes at subscription time
CurrentEv == [type |-> "current"]

\* what a derived Value hands its listeners: the new and the old value
DerivedEv(v, ov) == [type |-> "value", value |-> v, prev |-> ov]

\* the ordered entries of a backing Set or Map
SetHas(d, e) == e \in Range(d)
MapHas(d, k) == \E i \in 1..Len(d) : d[i].k = k
MapGet(d, k) ==
  IF MapHas(d, k) THEN (CHOOSE en \in Range(d) : en.k = k).v ELSE Undefined

\* a projection function applied to a value
Proj(fn, v) == IF fn = "id" THEN v ELSE Data(v)

\* RSet.hasValue(elem): the listener it puts on the set, and its current
hasValue_listener(id, change, data) ==
  IF change.elem = subs[id].key
  THEN LET has == change.type = "added"
       IN <<Invoke(id, DerivedEv(has, ~has), SetHas(data, subs[id].key))>>
  ELSE <<>>

\* RMap.projectValue(key, fn, eq): the current of the derived Value
projectValue_current(id, data) ==
  LET v == MapGet(data, subs[id].key)
  IN IF v = Undefined THEN Undefined ELSE Proj(subs[id].proj, v)

\* the projectValue listener without the test of the key
projectValue_listener_anykey(id, change, data) ==
  LET ovalue == IF change.prev = Undefined THEN Undefined
                ELSE Proj(subs[id].proj, change.prev)
      nvalue == IF change.type = "set" THEN Proj(subs[id].proj, change.value)
                ELSE Undefined
  IN IF ~ElemEq(subs[id].eq, ovalue, nvalue)
     THEN <<Invoke(id, DerivedEv(nvalue, ovalue), projectValue_current(id, data))>>
     ELSE <<>>

\* RMap.projectValue(key, fn, eq): the listener it puts on the map
projectValue_listener(id, change, data) ==
  IF change.key = subs[id].key
  THEN LET ovalue == IF change.prev = Undefined THEN Undefined
                     ELSE Proj(subs[id].proj, change.prev)
           nvalue == IF change.type = "set" THEN Proj(subs[id].proj, change.value)
                     ELSE Undefined
       IN IF ~ElemEq(subs[id].eq, ovalue, nvalue)
          THEN <<Invoke(id, DerivedEv(nvalue, ovalue), projectValue_current(id, data))>>
          ELSE <<>>
  ELSE <<>>

\* the listener a derived Value keeps on its upstream while it has listeners
\* of its own: it stands in the upstream's array like a subscription
Conn == 0

\* the function of the derived Value: m.map(v => v div 5)
DerivedFn(v) == v \div 5

RECURSIVE dispatchValue(_, _, _)

\* a derived Value that holds its listeners back until the upstream's
\* dispatch is over
derived_listener_deferred(ev) == <<>>

\* the listener of a derived Value, called with the upstream's new value: it
\* recomputes, and if the result differs from the one it held it calls the
\* derived Value's own listeners, then returns
derived_listener(ev) ==
  LET nvalue == DerivedFn(ev.value)
      ovalue == DerivedFn(mCur)
  IN IF Eq("refEquals", nvalue, ovalue) THEN <<>>
     ELSE dispatchValue(lns["derived"], DerivedEv(nvalue, ovalue), nvalue)

\* the Values and Sources a collection derives that are shared by their
\* observers: collection.sizeValue (cached on the collection) and the Source
\* a call of collection.map(fn) returned.  Each has a listener array of its
\* own, and keeps one listener of the given kind on the collection.
Watches == {"size", "mapped"}
ConnKind(w) == IF w = "size" THEN "sizeValue" ELSE "map"
ConnKinds == {ConnKind(w) : w \in Watches}

\* RSet.sizeValue / RMap.sizeValue: the listener put on the collection; size
\* is this.size as the callback reads it
sizeValue_listener(id, change, data) ==
  LET size == Len(data)
  IN IF subs[id].obj = "set"
     THEN IF change.type = "added"
          THEN dispatchValue(lns["size"], DerivedEv(size, size - 1), size)
          ELSE dispatchValue(lns["size"], DerivedEv(size, size + 1), size)
     ELSE IF change.type = "deleted"
          THEN dispatchValue(lns["size"], DerivedEv(size, size + 1), size)
          ELSE IF change.prev = Undefined
               THEN dispatchValue(lns["size"], DerivedEv(size, size - 1), size)
               ELSE <<>>

\* the function handed to map: c => c.size (c.length for a list)
MappedFn(data) == Len(data)

\* a call of the function handed to map, as the invocations record it
FnEv == [type |-> "fn"]

\* RList.map / RSet.map / RMap.map: the listener put on the collection,
\* _ => lner(fn(this.data))
mapped_listener(id, change, data) ==
  <<Invoke(id, FnEv, data)>>
  \o dispatchValue(lns["mapped"], ValueEv(MappedFn(data)), MappedFn(data))

\* the callback of subscription id run on event ev, while the object holds
\* data: the invocations of the client's function that it makes
RunListener(id, ev, data) ==
  IF id = Conn THEN derived_listener(ev)
  ELSE CASE subs[id].kind = "hasValue" -> hasValue_listener(id, ev, data)
         [] subs[id].kind = "projectValue" -> projectValue_listener(id, ev, data)
         [] subs[id].kind = "sizeValue" -> sizeValue_listener(id, ev, data)
         [] subs[id].kind = "map" -> mapped_listener(id, ev, data)
         [] OTHER -> <<Invoke(id, ev, data)>>

\* dispatchValue that calls the listeners last subscribed first
dispatchValue_reversed(ls, ev, data) ==
  IF ls = <<>> THEN <<>>
  ELSE dispatchValue(Tail(ls), ev, data) \o RunListener(Head(ls), ev, data)

\* dispatchValue(listeners, value): every registered listener is called, in
\* subscription order
dispatchValue(ls, ev, data) ==
  IF ls = <<>> THEN <<>>
  ELSE RunListener(Head(ls), ev, data) \o dispatchValue(Tail(ls), ev, data)

\* the state a call starts from
Pre == [mCur |-> mCur, elems |-> elems, lIns |-> lIns, sdata |-> sdata, mdata |-> mdata,
        sel |-> sel, lns |-> lns, subs |-> subs]

----------------------------------------------------------------------------
(* The spec's end-to-end scenarios, followed as the client makes the calls *)

ScnOff == [name |-> "off", step |-> 0, log |-> <<>>]

\* scenario A: m = Mutable.local(0); m.onValue(log.push); m.update(0);
\* m.update(5); m.update(5)
ScenarioA == <<[op |-> "onValue"], [op |-> "update", v |-> 0],
               [op |-> "update", v |-> 5], [op |-> "update", v |-> 5]>>

\* scenario C: L = []; L.onChange(log.push); L.insert("a", 0);
\* L.insert("b", 0)
ScenarioC == <<[op |-> "onChange"], [op |-> "insert", elem |-> "a", index |-> 0],
               [op |-> "insert", elem |-> "b", index |-> 0]>>

\* the scenario's next state when the client makes call c, which made the
\* invocations calls: the log grows by the events subscription 1 was called for
ScnStep(script, name, c, calls) ==
  LET step == IF scn.name = name THEN scn.step ELSE 0
      got == [i \in 1..Len(calls) |-> calls[i].ev]
      mine == IF \A i \in 1..Len(calls) : calls[i].id = 1 THEN got ELSE <<>>
  IN IF /\ scn.name \in {name, "none"}
        /\ step < Len(script)
        /\ script[step + 1] = c
     THEN [name |-> name, step |-> step + 1, log |-> scn.log \o mine]
     ELSE ScnOff

----------------------------------------------------------------------------
(* Mutable *)

\* Mutable.update(v) with the listeners called before current is replaced
Mutable_update_late(v) ==
  IF Eq(mEq, v, mCur) THEN [cur |-> mCur, out |-> <<>>]
  ELSE [cur |-> v, out |-> dispatchValue(lns["mutable"], ValueEv(v), mCur)]

\* Mutable.update(v) without the test of eq
Mutable_update_always(v) ==
  [cur |-> v, out |-> dispatchValue(lns["mutable"], ValueEv(v), v)]

\* Mutable.update(v): elided when eq(v, current); otherwise current is
\* replaced and then the listeners are called with v
Mutable_update_do(v) ==
  IF Eq(mEq, v, mCur) THEN [cur |-> mCur, out |-> <<>>]
  ELSE [cur |-> v, out |-> dispatchValue(lns["mutable"], ValueEv(v), v)]

\* the update call made right before an update call, if the call before was
\* one: its argument, the current it found and the invocations it made
NoLast == [on |-> FALSE, v |-> 0, cur |-> 0, out |-> <<>>]
LastUpdate ==
  IF call.op = "update" /\ call.obj = "mutable"
  THEN [on |-> TRUE, v |-> call.v, cur |-> pre.mCur, out |-> out]
  ELSE NoLast

Mutable_update(v) ==
  /\ obj \in MutablePieces
  /\ LET r == Mutable_update_do(v)
     IN /\ mCur' = r.cur
        /\ out' = r.out
        /\ scn' = ScnStep(ScenarioA, "A", [op |-> "update", v |-> v], r.out)
  /\ call' = [op |-> "update", obj |-> "mutable", v |-> v, last |-> LastUpdate]
  /\ pre' = Pre
  /\ UNCHANGED evars
  /\ UNCHANGED <<obj, mEq, lvars, svars, pvars, lns, subs>>

\* Value.onValue(fn): fn(current), then onEmit(fn)
Value_onValue ==
  /\ obj \in MutablePieces
  /\ Len(subs) < MaxSubs
  /\ LET id == Len(subs) + 1
         calls == <<Invoke(id, ValueEv(mCur), mCur)>>
     IN /\ subs' = Append(subs, Sub("mutable", "onValue"))
        /\ lns' = [lns EXCEPT !["mutable"] = addListener(@, id)]
        /\ out' = calls
        /\ call' = [op |-> "onValue", obj |-> "mutable", id |-> id]
        /\ scn' = ScnStep(ScenarioA, "A", [op |-> "onValue"], calls)
  /\ pre' = Pre
  /\ UNCHANGED evars
  /\ UNCHANGED <<obj, mvars, lvars, svars, pvars>>

\* Source.onEmit(fn): registers fn for future emissions only
Value_onEmit ==
  /\ obj \in MutablePieces
  /\ Len(subs) < MaxSubs
  /\ LET id == Len(subs) + 1
     IN /\ subs' = Append(subs, Sub("mutable", "onEmit"))
        /\ lns' = [lns EXCEPT !["mutable"] = addListener(@, id)]
        /\ call' = [op |-> "onEmit", obj |-> "mutable", id |-> id]
  /\ out' = <<>>
  /\ scn' = ScnOff
  /\ pre' = Pre
  /\ UNCHANGED evars
  /\ UNCHANGED <<obj, mvars, lvars, svars, pvars>>

\* Value.onValue(fn) on the derived Value: fn(current), and the first
\* listener makes the derived Value listen to its upstream
Derived_onValue ==
  /\ obj = "derive"
  /\ Len(subs) < MaxSubs
  /\ LET id == Len(subs) + 1
         cur == DerivedFn(mCur)
     IN /\ subs' = Append(subs, Sub("derived", "onValue"))
        /\ lns' = [lns EXCEPT !["derived"] = addListener(@, id),
                              !["mutable"] = IF lns["derived"] = <<>>
                                             THEN addListener(@, Conn) ELSE @]
        /\ out' = <<Invoke(id, ValueEv(cur), cur)>>
        /\ call' = [op |-> "onValue", obj |-> "derived", id |-> id]
  /\ scn' = ScnOff
  /\ pre' = Pre
  /\ UNCHANGED evars
  /\ UNCHANGED <<obj, mvars, lvars, svars, pvars>>

----------------------------------------------------------------------------
(* Reactive list *)

Min(a, b) == IF a < b THEN a ELSE b

\* Array.prototype.splice(index, 0, elem): an index past the end is clamped
SpliceIn(s, index, elem) ==
  LET at == Min(index, Len(s))
  IN SubSeq(s, 1, at) \o <<elem>> \o SubSeq(s, at + 2 - 1, Len(s))

\* Array.prototype.splice(index, 1): nothing goes when index is past the end
SpliceOut(s, index) ==
  IF index < Len(s) THEN SubSeq(s, 1, index) \o SubSeq(s, index + 2, Len(s))
  ELSE s

\* elems[index], undefined out of bounds (indices count from 0)
ElemAt(s, index) == IF index < Len(s) THEN s[index + 1] ELSE Undefined

\* ListChange<E>
ListAdded(index, elem) == [type |-> "added", index |-> index, elem |-> elem]
ListUpdated(index, elem, prev) ==
  [type |-> "updated", index |-> index, elem |-> elem, prev |-> prev]
ListDeleted(index, prev) == [type |-> "deleted", index |-> index, prev |-> prev]

\* insert(elem, index) that pushes elem at the end
LocalMutableList_insert_push(elem, index) == Append(elems, elem)

\* LocalMutableList.insert: elems.splice(index, 0, elem)
LocalMutableList_insert(elem, index) == SpliceIn(elems, index, elem)

\* delete(index) that reads prev after the splice
LocalMutableList_prev_late(index) == ElemAt(SpliceOut(elems, index), index)

\* LocalMutableList.delete: prev = elems[index], read before the splice
LocalMutableList_prev(index) == ElemAt(elems, index)

\* RList.onValue without the call of fn(this)
RList_onValue_nocall(id) == <<>>

\* RList.onValue: fn(this), after onEmit(fn)
RList_onValue_call(id) == <<Invoke(id, CurrentEv, elems)>>

\* LocalMutableList.insert(elem, index)
List_insert(elem, index) ==
  /\ obj = "list"
  /\ Len(elems) < MaxLen
  /\ LET nelems == LocalMutableList_insert(elem, index)
         calls == dispatchValue(lns["list"], ListAdded(index, elem), nelems)
     IN /\ elems' = nelems
        /\ out' = calls
        /\ scn' = ScnStep(ScenarioC, "C",
                          [op |-> "insert", elem |-> elem, index |-> index], calls)
  /\ call' = [op |-> "insert", obj |-> "list", elem |-> elem, index |-> index,
              events |-> <<ListAdded(index, elem)>>]
  /\ pre' = Pre
  /\ UNCHANGED evars
  /\ UNCHANGED <<obj, mvars, lEq, svars, pvars, lns, subs>>
  /\ lIns' = lIns

\* LocalMutableList.append(elem)
List_append(elem) ==
  /\ obj = "list"
  /\ Len(elems) < MaxLen
  /\ LET index == Len(elems)
         nelems == Append(elems, elem)
     IN /\ elems' = nelems
        /\ out' = dispatchValue(lns["list"], ListAdded(index, elem), nelems)
  /\ call' = [op |-> "append", obj |-> "list", elem |-> elem,
              events |-> <<ListAdded(Len(elems), elem)>>]
  /\ scn' = ScnOff
  /\ pre' = Pre
  /\ UNCHANGED evars
  /\ UNCHANGED <<obj, mvars, lEq, svars, pvars, lns, subs>>
  /\ lIns' = FALSE

\* LocalMutableList.update(index, elem), index in bounds
List_update(index, elem) ==
  /\ obj = "list"
  /\ index < Len(elems)
  /\ LET prev == elems[index + 1]
         changed == ~ElemEq(lEq, elem, prev)
         nelems == IF changed THEN [elems EXCEPT ![index + 1] = elem] ELSE elems
     IN /\ elems' = nelems
        /\ out' = IF changed
                  THEN dispatchValue(lns["list"], ListUpdated(index, elem, prev), nelems)
                  ELSE <<>>
        /\ call' = [op |-> "update", obj |-> "list", elem |-> elem, index |-> index,
                    events |-> IF changed THEN <<ListUpdated(index, elem, prev)>>
                               ELSE <<>>]
  /\ scn' = ScnOff
  /\ pre' = Pre
  /\ UNCHANGED evars
  /\ UNCHANGED <<obj, mvars, lEq, svars, pvars, lns, subs>>
  /\ lIns' = FALSE

\* LocalMutableList.delete(index)
List_delete(index) ==
  /\ obj = "list"
  /\ LET prev == LocalMutableList_prev(index)
         nelems == SpliceOut(elems, index)
     IN /\ elems' = nelems
        /\ out' = dispatchValue(lns["list"], ListDeleted(index, prev), nelems)
        /\ call' = [op |-> "delete", obj |-> "list", index |-> index,
                    events |-> <<ListDeleted(index, prev)>>]
  /\ scn' = ScnOff
  /\ pre' = Pre
  /\ UNCHANGED evars
  /\ UNCHANGED <<obj, mvars, lEq, svars, pvars, lns, subs>>
  /\ lIns' = FALSE

\* MutableList.onChange(fn)
List_onChange ==
  /\ obj = "list"
  /\ Len(subs) < MaxSubs
  /\ LET id == Len(subs) + 1
     IN /\ subs' = Append(subs, Sub("list", "onChange"))
        /\ lns' = [lns EXCEPT !["list"] = addListener(@, id)]
        /\ call' = [op |-> "onChange", obj |-> "list", id |-> id]
  /\ out' = <<>>
  /\ scn' = ScnStep(ScenarioC, "C", [op |-> "onChange"], <<>>)
  /\ pre' = Pre
  /\ UNCHANGED evars
  /\ UNCHANGED <<obj, mvars, lvars, svars, pvars>>

\* RList.onEmit(fn): onChange(change => fn(this))
List_onEmit ==
  /\ obj = "list"
  /\ Len(subs) < MaxSubs
  /\ LET id == Len(subs) + 1
     IN /\ subs' = Append(subs, Sub("list", "onEmit"))
        /\ lns' = [lns EXCEPT !["list"] = addListener(@, id)]
        /\ call' = [op |-> "onEmit", obj |-> "list", id |-> id]
  /\ out' = <<>>
  /\ scn' = ScnOff
  /\ pre' = Pre
  /\ UNCHANGED evars
  /\ UNCHANGED <<obj, mvars, lvars, svars, pvars>>

\* RList.onValue(fn): remover = onEmit(fn); fn(this); return remover
List_onValue ==
  /\ obj = "list"
  /\ Len(subs) < MaxSubs
  /\ LET id == Len(subs) + 1
     IN /\ subs' = Append(subs, Sub("list", "onEmit"))
        /\ lns' = [lns EXCEPT !["list"] = addListener(@, id)]
        /\ out' = RList_onValue_call(id)
        /\ call' = [op |-> "onValue", obj |-> "list", id |-> id]
  /\ scn' = ScnOff
  /\ pre' = Pre
  /\ UNCHANGED evars
  /\ UNCHANGED <<obj, mvars, lvars, svars, pvars>>

----------------------------------------------------------------------------
(* Reactive set *)

\* SetChange<E>
SetAdded(elem) == [type |-> "added", elem |-> elem]
SetDeleted(elem) == [type |-> "deleted", elem |-> elem]

\* LocalMutableSet.add(elem)
Set_add(elem) ==
  /\ obj = "set"
  /\ LET ndata == IF SetHas(sdata, elem) THEN sdata ELSE Append(sdata, elem)
     IN /\ sdata' = ndata
        /\ out' = IF Len(ndata) # Len(sdata)
                  THEN dispatchValue(lns["set"], SetAdded(elem), ndata)
                  ELSE <<>>
        /\ call' = [op |-> "add", obj |-> "set", elem |-> elem,
                    events |-> IF Len(ndata) # Len(sdata) THEN <<SetAdded(elem)>>
                               ELSE <<>>]
  /\ scn' = ScnOff
  /\ pre' = Pre
  /\ UNCHANGED evars
  /\ UNCHANGED <<obj, mvars, lvars, pvars, lns, subs>>

\* a delete that reports a removal whatever the set held
LocalMutableSet_delete_changed_always(data, elem) == TRUE

\* const changed = this.data.delete(elem): whether the Set held elem
LocalMutableSet_delete_changed(data, elem) == SetHas(data, elem)

\* LocalMutableSet.delete(elem)
Set_delete(elem) ==
  /\ obj = "set"
  /\ LET changed == LocalMutableSet_delete_changed(sdata, elem)
         ndata == Without(sdata, elem)
     IN /\ sdata' = ndata
        /\ out' = IF changed
                  THEN dispatchValue(lns["set"], SetDeleted(elem), ndata)
                  ELSE <<>>
        /\ call' = [op |-> "delete", obj |-> "set", elem |-> elem, ret |-> changed,
                    events |-> IF changed THEN <<SetDeleted(elem)>> ELSE <<>>]
  /\ scn' = ScnOff
  /\ pre' = Pre
  /\ UNCHANGED evars
  /\ UNCHANGED <<obj, mvars, lvars, pvars, lns, subs>>

\* MutableSet.onChange(fn)
Set_onChange ==
  /\ obj = "set"
  /\ Len(subs) < MaxSubs
  /\ LET id == Len(subs) + 1
     IN /\ subs' = Append(subs, Sub("set", "onChange"))
        /\ lns' = [lns EXCEPT !["set"] = addListener(@, id)]
        /\ call' = [op |-> "onChange", obj |-> "set", id |-> id]
  /\ out' = <<>>
  /\ scn' = ScnOff
  /\ pre' = Pre
  /\ UNCHANGED evars
  /\ UNCHANGED <<obj, mvars, lvars, svars, pvars>>

\* RSet.onValue(fn): remover = onEmit(fn); fn(this.data); return remover
Set_onValue ==
  /\ obj = "set"
  /\ Len(subs) < MaxSubs
  /\ LET id == Len(subs) + 1
     IN /\ subs' = Append(subs, Sub("set", "onEmit"))
        /\ lns' = [lns EXCEPT !["set"] = addListener(@, id)]
        /\ out' = <<Invoke(id, CurrentEv, sdata)>>
        /\ call' = [op |-> "onValue", obj |-> "set", id |-> id]
  /\ scn' = ScnOff
  /\ pre' = Pre
  /\ UNCHANGED evars
  /\ UNCHANGED <<obj, mvars, lvars, svars, pvars>>

\* RSet.hasValue(elem).onEmit(fn): the derived Value connects to the set
Set_hasValue ==
  /\ obj = "set"
  /\ Len(subs) < MaxSubs
  /\ LET id == Len(subs) + 1
     IN /\ subs' = Append(subs, SubKey("set", "hasValue", Watched, "id",
                                       "refEquals", "set"))
        /\ lns' = [lns EXCEPT !["set"] = addListener(@, id)]
        /\ call' = [op |-> "hasValue", obj |-> "set", id |-> id]
  /\ out' = <<>>
  /\ scn' = ScnOff
  /\ pre' = Pre
  /\ UNCHANGED evars
  /\ UNCHANGED <<obj, mvars, lvars, svars, pvars>>

----------------------------------------------------------------------------
(* Reactive map *)

\* MapChange<K,V>
MapSet(key, value, prev) ==
  [type |-> "set", key |-> key, value |-> value, prev |-> prev]
MapDeleted(key, prev) == [type |-> "deleted", key |-> key, prev |-> prev]

\* a set that takes a present key out and puts it back last
MapPut_last(d, k, v) ==
  Append(SelectSeq(d, LAMBDA en : en.k # k), [k |-> k, v |-> v])

\* Map.prototype.set: a present key keeps its place, a new one goes last
MapPut(d, k, v) ==
  IF MapHas(d, k)
  THEN [i \in 1..Len(d) |-> IF d[i].k = k THEN [k |-> k, v |-> v] ELSE d[i]]
  ELSE Append(d, [k |-> k, v |-> v])

RECURSIVE MapDel(_, _)
\* Map.prototype.delete
MapDel(d, k) ==
  IF d = <<>> THEN <<>>
  ELSE IF Head(d).k = k THEN Tail(d) ELSE <<Head(d)>> \o MapDel(Tail(d), k)

\* LocalMutableMap.set(key, value)
Map_set(m, key, value) ==
  /\ obj = "switch" \/ (obj = "map" /\ m = "mapA")
  /\ LET prev == MapGet(mdata[m], key)
         ndata == MapPut(mdata[m], key, value)
     IN /\ mdata' = [mdata EXCEPT ![m] = ndata]
        /\ out' = dispatchValue(lns[m], MapSet(key, value, prev), ndata)
        /\ call' = [op |-> "set", obj |-> m, key |-> key, value |-> value,
                    events |-> <<MapSet(key, value, prev)>>]
  /\ scn' = ScnOff
  /\ pre' = Pre
  /\ UNCHANGED evars
  /\ UNCHANGED <<obj, mvars, lvars, svars, sel, lns, subs>>

\* LocalMutableMap.delete(key)
Map_delete(m, key) ==
  /\ obj = "switch" \/ (obj = "map" /\ m = "mapA")
  /\ LET prev == MapGet(mdata[m], key)
         changed == MapHas(mdata[m], key)
         ndata == MapDel(mdata[m], key)
     IN /\ mdata' = [mdata EXCEPT ![m] = ndata]
        /\ out' = IF changed
                  THEN dispatchValue(lns[m], MapDeleted(key, prev), ndata)
                  ELSE <<>>
        /\ call' = [op |-> "delete", obj |-> m, key |-> key, ret |-> changed,
                    events |-> IF changed THEN <<MapDeleted(key, prev)>> ELSE <<>>]
  /\ scn' = ScnOff
  /\ pre' = Pre
  /\ UNCHANGED evars
  /\ UNCHANGED <<obj, mvars, lvars, svars, sel, lns, subs>>

\* what the client subscribes to: the mutable map itself, or the SwitchMap
Target == IF obj = "switch" THEN "switch" ELSE "mapA"

\* the map a subscription on the target reads
TargetMap == IF Target = "switch" THEN sel ELSE Target

\* registering a listener: MutableMap.onChange puts it on the map's array;
\* SwitchMap.onChange puts it on the selected map and one more on the Value
Map_register(id) ==
  IF Target = "switch"
  THEN [lns EXCEPT ![sel] = addListener(@, id), !["sel"] = addListener(@, id)]
  ELSE [lns EXCEPT ![Target] = addListener(@, id)]

\* room for one more subscription
MapSubsRoom ==
  \/ obj = "map" /\ Len(subs) < MaxSubs
  \/ obj = "switch" /\ Len(subs) < MaxSwitchSubs

\* RMap.onChange(fn)
Map_onChange ==
  /\ MapSubsRoom
  /\ LET id == Len(subs) + 1
     IN /\ subs' = Append(subs, SubKey(Target, "onChange", Undefined, "id",
                                       "refEquals", TargetMap))
        /\ lns' = Map_register(id)
        /\ call' = [op |-> "onChange", obj |-> Target, id |-> id]
  /\ out' = <<>>
  /\ scn' = ScnOff
  /\ pre' = Pre
  /\ UNCHANGED evars
  /\ UNCHANGED <<obj, mvars, lvars, svars, pvars>>

\* RMap.onValue(fn): remover = onEmit(fn); fn(this.data); return remover
Map_onValue ==
  /\ MapSubsRoom
  /\ LET id == Len(subs) + 1
     IN /\ subs' = Append(subs, SubKey(Target, "onEmit", Undefined, "id",
                                       "refEquals", TargetMap))
        /\ lns' = Map_register(id)
        /\ out' = <<Invoke(id, CurrentEv, mdata[TargetMap])>>
        /\ call' = [op |-> "onValue", obj |-> Target, id |-> id]
  /\ scn' = ScnOff
  /\ pre' = Pre
  /\ UNCHANGED evars
  /\ UNCHANGED <<obj, mvars, lvars, svars, pvars>>

\* RMap.projectValue(key, fn, eq).onEmit(fn); getValue(key, eq) is the
\* projection v => v
Map_projectValue(proj, eq) ==
  /\ MapSubsRoom
  /\ LET id == Len(subs) + 1
     IN /\ subs' = Append(subs, SubKey(Target, "projectValue", WatchedKey, proj,
                                       eq, TargetMap))
        /\ lns' = Map_register(id)
        /\ call' = [op |-> "projectValue", obj |-> Target, id |-> id]
  /\ out' = <<>>
  /\ scn' = ScnOff
  /\ pre' = Pre
  /\ UNCHANGED evars
  /\ UNCHANGED <<obj, mvars, lvars, svars, pvars>>

\* a switch that reports no key of the previous map as deleted
SwitchDeleted_none(old, new) == <<>>

RECURSIVE SwitchDeleted(_, _)
\* SwitchMap: anything not present in the new map is "deleted"
SwitchDeleted(old, new) ==
  IF old = <<>> THEN <<>>
  ELSE (IF ~MapHas(new, Head(old).k)
        THEN <<MapDeleted(Head(old).k, Head(old).v)>> ELSE <<>>)
       \o SwitchDeleted(Tail(old), new)

RECURSIVE SwitchSet(_, _)
\* SwitchMap: anything that changed in the new map is "set"
SwitchSet(old, new) ==
  IF new = <<>> THEN <<>>
  ELSE (IF MapGet(old, Head(new).k) # Head(new).v
        THEN <<MapSet(Head(new).k, Head(new).v, MapGet(old, Head(new).k))>>
        ELSE <<>>)
       \o SwitchSet(old, Tail(new))

RECURSIVE RunEvents(_, _, _)
\* changeFn called for each event of a sequence
RunEvents(id, evs, data) ==
  IF evs = <<>> THEN <<>>
  ELSE RunListener(id, Head(evs), data) \o RunEvents(id, Tail(evs), data)

\* the listener on the Value without mapRemover(): the previous map keeps
\* the listener
SwitchMap_listener_keep(id, st, newMap) ==
  LET old == st.subs[id].map
  IN IF newMap = old THEN st
     ELSE LET evs == SwitchDeleted(mdata[old], mdata[newMap])
                     \o SwitchSet(mdata[old], mdata[newMap])
          IN [lns |-> [st.lns EXCEPT ![newMap] = addListener(@, id)],
              subs |-> [st.subs EXCEPT ![id].map = newMap],
              out |-> st.out \o RunEvents(id, evs, mdata[newMap])]

\* SwitchMap.onChange: the listener on the Value, for subscription id; st is
\* the listener arrays, the subscriptions and the invocations made so far
SwitchMap_listener(id, st, newMap) ==
  LET old == st.subs[id].map
  IN IF newMap = old THEN st
     ELSE LET evs == SwitchDeleted(mdata[old], mdata[newMap])
                     \o SwitchSet(mdata[old], mdata[newMap])
          IN [lns |-> [st.lns EXCEPT ![old] = removeListener(@, id),
                                     ![newMap] = addListener(@, id)],
              subs |-> [st.subs EXCEPT ![id].map = newMap],
              out |-> st.out \o RunEvents(id, evs, mdata[newMap])]

RECURSIVE SwitchDispatch(_, _, _)
\* the Value's dispatch over its listeners, in subscription order
SwitchDispatch(ls, st, newMap) ==
  IF ls = <<>> THEN st
  ELSE SwitchDispatch(Tail(ls), SwitchMap_listener(Head(ls), st, newMap), newMap)

\* value.update(m) on the Value the SwitchMap follows (a Mutable, refEquals)
Sel_update(m) ==
  /\ obj = "switch"
  /\ LET st == IF m = sel THEN [lns |-> lns, subs |-> subs, out |-> <<>>]
               ELSE SwitchDispatch(lns["sel"],
                                   [lns |-> lns, subs |-> subs, out |-> <<>>], m)
     IN /\ sel' = m
        /\ lns' = st.lns
        /\ subs' = st.subs
        /\ out' = st.out
  /\ call' = [op |-> "update", obj |-> "sel", v |-> m,
              events |-> IF m = sel THEN <<>>
                         ELSE SwitchDeleted(mdata[sel], mdata[m])
                              \o SwitchSet(mdata[sel], mdata[m])]
  /\ scn' = ScnOff
  /\ pre' = Pre
  /\ UNCHANGED evars
  /\ UNCHANGED <<obj, mvars, lvars, svars, mdata>>

----------------------------------------------------------------------------
(* Removers *)

\* the SwitchMap Remover without valueRemover()
SwitchMap_remover_mapOnly(ls, id) ==
  [ls EXCEPT ![subs[id].map] = removeListener(@, id)]

\* the Remover SwitchMap.onChange returns: mapRemover(); valueRemover()
SwitchMap_remover(ls, id) ==
  [ls EXCEPT ![subs[id].map] = removeListener(@, id),
             !["sel"] = removeListener(@, id)]

\* the Remover of a listener of the derived Value: the last one to go takes
\* the derived Value's own listener off the upstream
Derived_remover(ls, id) ==
  LET left == removeListener(ls["derived"], id)
  IN [ls EXCEPT !["derived"] = left,
                !["mutable"] = IF left = <<>> THEN removeListener(@, Conn) ELSE @]

\* the listener a sizeValue or a mapped Source has on the collection
LiveConn(ls, w) ==
  {c \in DOMAIN subs : /\ subs[c].kind = ConnKind(w)
                       /\ \E o \in Objects : c \in Range(ls[o])}

\* the Remover the collection's onChange returned for listener c
Unregister(ls, c) ==
  IF subs[c].obj = "switch" THEN SwitchMap_remover(ls, c)
  ELSE [ls EXCEPT ![subs[c].obj] = removeListener(@, c)]

\* a Remover that leaves the listener on the collection where it is
Watch_remover_keep(ls, id) ==
  [ls EXCEPT ![subs[id].obj] = removeListener(@, id)]

\* the Remover of an observer of a sizeValue or of a mapped Source: the last
\* one to go takes the listener off the collection
Watch_remover(ls, id) ==
  LET w == subs[id].obj
      l1 == [ls EXCEPT ![w] = removeListener(@, id)]
  IN IF l1[w] = <<>> /\ LiveConn(l1, w) # {}
     THEN Unregister(l1, CHOOSE c \in LiveConn(l1, w) : TRUE)
     ELSE l1

\* invoking the Remover a subscribe call returned
Remover(id) ==
  /\ id \in DOMAIN subs
  /\ subs[id].kind \notin ConnKinds
  /\ lns' = CASE subs[id].obj = "switch" -> SwitchMap_remover(lns, id)
              [] subs[id].obj = "derived" -> Derived_remover(lns, id)
              [] subs[id].obj \in Watches -> Watch_remover(lns, id)
              [] OTHER -> [lns EXCEPT ![subs[id].obj] = removeListener(@, id)]
  /\ subs' = [i \in DOMAIN subs |->
                IF \/ i = id
                   \/ /\ subs[i].kind \in ConnKinds
                      /\ \A o \in Objects : i \notin Range(lns'[o])
                THEN [subs[i] EXCEPT !.rm = TRUE] ELSE subs[i]]
  /\ call' = [op |-> "remover", obj |-> subs[id].obj, id |-> id]
  /\ pre' = Pre
  /\ UNCHANGED evars
  /\ out' = <<>>
  /\ scn' = ScnOff
  /\ UNCHANGED <<obj, mvars, lvars, svars, pvars>>

----------------------------------------------------------------------------
(* Callbacks that subscribe and unsubscribe while they are being called *)

\* what a callback does when called, besides taking note of the event:
\* nothing more, invoke the Remover of subscription id (its own or
\* another's), or subscribe one more listener
NoAct == [do |-> "log", id |-> 0]
Acts == {NoAct, [do |-> "add", id |-> 0]}
          \cup {[do |-> "remove", id |-> k] : k \in 1..MaxFnSubs}

\* a subscription whose callback does act
SubFn(o, kind, act) ==
  [obj |-> o, kind |-> kind, rm |-> FALSE, key |-> Undefined, proj |-> "id",
   eq |-> "refEquals", map |-> o, act |-> act]

\* what a callback does to the registry is recorded among the invocations:
\* the Remover of id invoked by the callback of `by`, id subscribed by it
RemoverEv(by) == [type |-> "remover", by |-> by]
SubscribedEv(by) == [type |-> "subscribed", by |-> by]

\* the callback of subscription id called with ev: st is the listener array,
\* the subscriptions and the invocations so far
Callback(st, o, id, ev, data) ==
  LET act == st.subs[id].act
      s1 == [st EXCEPT !.out = Append(@, Invoke(id, ev, data))]
  IN CASE act.do = "remove" /\ act.id \in DOMAIN s1.subs ->
            [s1 EXCEPT !.ls = removeListener(@, act.id),
                       !.subs[act.id].rm = TRUE,
                       !.out = Append(@, Invoke(act.id, RemoverEv(id), data))]
       [] act.do = "add" ->
            LET new == Len(s1.subs) + 1
            IN [s1 EXCEPT !.ls = addListener(@, new),
                          !.subs = Append(@, SubFn(o, "onChange", NoAct)),
                          !.out = Append(@, Invoke(new, SubscribedEv(id), data))]
       [] OTHER -> s1

RECURSIVE dispatchPass_snapshot(_, _, _, _, _)
\* a pass over a copy of the array that calls every listener in the copy
dispatchPass_snapshot(snap, st, o, ev, data) ==
  IF snap = <<>> THEN st
  ELSE dispatchPass_snapshot(Tail(snap), Callback(st, o, Head(snap), ev, data),
                             o, ev, data)

RECURSIVE LivePass(_, _, _, _, _)
\* for (i = 0; i < listeners.length; i++) listeners[i](value)
LivePass(i, st, o, ev, data) ==
  IF i > Len(st.ls) THEN st
  ELSE LivePass(i + 1, Callback(st, o, st.ls[i], ev, data), o, ev, data)

\* a pass over the array itself, by index, while the callbacks change it
dispatchPass_live(snap, st, o, ev, data) == LivePass(1, st, o, ev, data)

RECURSIVE dispatchPass(_, _, _, _, _)
\* dispatchValue(listeners, value) when callbacks change the array: the pass
\* goes over the listeners registered when it began (snap), in order, and
\* calls each one that is still registered when its turn comes
dispatchPass(snap, st, o, ev, data) ==
  IF snap = <<>> THEN st
  ELSE LET id == Head(snap)
           s1 == IF id \in Range(st.ls) THEN Callback(st, o, id, ev, data)
                 ELSE st
       IN dispatchPass(Tail(snap), s1, o, ev, data)

\* the subscriptions whose Remover the callback of subscription id may hold:
\* its own, the one made just before it, the one made just after it
Near(id) == {id - 1, id, id + 1}

\* MutableList.onChange(fn), fn a callback that does act
Fn_onChange(act) ==
  /\ obj = "reenter"
  /\ Len(subs) < MaxFnSubs
  /\ act.do = "remove" => act.id \in Near(Len(subs) + 1)
  /\ LET id == Len(subs) + 1
     IN /\ subs' = Append(subs, SubFn("list", "onChange", act))
        /\ lns' = [lns EXCEPT !["list"] = addListener(@, id)]
        /\ call' = [op |-> "onChange", obj |-> "list", id |-> id]
  /\ out' = <<>>
  /\ scn' = ScnOff
  /\ pre' = Pre
  /\ UNCHANGED evars
  /\ UNCHANGED <<obj, mvars, lvars, svars, pvars>>

\* notifyInsert / notifyDelete: one pass over the list's listeners.  The
\* callbacks subscribe no more than MaxFnSubs listeners in all.
Fn_notify(after, ev) ==
  LET r == dispatchPass(lns["list"],
                        [ls |-> lns["list"], subs |-> subs, out |-> <<>>],
                        "list", ev, after)
  IN /\ Len(r.subs) <= MaxFnSubs
     /\ elems' = after
     /\ lns' = [lns EXCEPT !["list"] = r.ls]
     /\ subs' = r.subs
     /\ out' = r.out

\* MutableList.append(elem) on the list with such listeners
Fn_append(elem) ==
  /\ obj = "reenter"
  /\ Len(elems) < MaxLen
  /\ Fn_notify(LocalMutableList_insert(elem, Len(elems)),
               ListAdded(Len(elems), elem))
  /\ call' = [op |-> "append", obj |-> "list", elem |-> elem,
              events |-> <<ListAdded(Len(elems), elem)>>]
  /\ lIns' = FALSE
  /\ scn' = ScnOff
  /\ pre' = Pre
  /\ UNCHANGED evars
  /\ UNCHANGED <<obj, mvars, lEq, svars, pvars>>

\* MutableList.delete(0) on the list with such listeners
Fn_delete ==
  /\ obj = "reenter"
  /\ elems # <<>>
  /\ Fn_notify(SpliceOut(elems, 0), ListDeleted(0, ElemAt(elems, 0)))
  /\ call' = [op |-> "delete", obj |-> "list", index |-> 0,
              events |-> <<ListDeleted(0, ElemAt(elems, 0))>>]
  /\ lIns' = FALSE
  /\ scn' = ScnOff
  /\ pre' = Pre
  /\ UNCHANGED evars
  /\ UNCHANGED <<obj, mvars, lEq, svars, pvars>>

----------------------------------------------------------------------------
(* Rectangles and sizes *)

Max(a, b) == IF a > b THEN a ELSE b

\* rect.create(): x, y, width, height, all zero
RectZero == <<0, 0, 0, 0>>

\* the value dim2 _psize starts from and invalidate puts in psize[0]
Sentinel == -1
NoSize == <<Sentinel, Sentinel>>

\* rect.isEmpty: no width or no height
RectIsEmpty(r) == r[3] <= 0 \/ r[4] <= 0

\* rect.eq: component by component
RectEq(a, b) == a = b

\* rect.union: the bounding rectangle of both; an empty one adds nothing
RectUnion(a, b) ==
  IF RectIsEmpty(a) THEN (IF RectIsEmpty(b) THEN RectZero ELSE b)
  ELSE IF RectIsEmpty(b) THEN a
  ELSE LET x == Min(a[1], b[1])
           y == Min(a[2], b[2])
       IN <<x, y, Max(a[1] + a[3], b[1] + b[3]) - x,
                  Max(a[2] + a[4], b[2] + b[4]) - y>>

\* rect.containsRect(a, b): b lies within a
RectContainsRect(a, b) ==
  \/ RectIsEmpty(b)
  \/ /\ ~RectIsEmpty(a)
     /\ a[1] <= b[1] /\ a[2] <= b[2]
     /\ b[1] + b[3] <= a[1] + a[3] /\ b[2] + b[4] <= a[2] + a[4]

\* rect.intersects(a, b): the two share some area
RectIntersects(a, b) ==
  /\ ~RectIsEmpty(a) /\ ~RectIsEmpty(b)
  /\ a[1] < b[1] + b[3] /\ b[1] < a[1] + a[3]
  /\ a[2] < b[2] + b[4] /\ b[2] < a[2] + a[4]

----------------------------------------------------------------------------
(* The element tree: a Root, the AbsLayout it holds, and a leaf in it *)

Els == {"root", "g", "c"}
NoParent == "none"

\* Element.parent
Parent(e) == CASE e = "c" -> "g" [] e = "g" -> "root" [] OTHER -> NoParent

\* Root.contents, Group.contents
Children(e) == CASE e = "root" -> <<"g">> [] e = "g" -> <<"c">> [] OTHER -> <<>>

\* the leaf's constraints.position in its AbsLayout
ChildPos == <<3, 3>>

\* the sizes the leaf's content asks for, and the sizes the host gives the Root
ContentSizes == {<<0, 0>>, <<1, 1>>}
RootSizes == {<<2, 2>>, <<4, 4>>}

\* the region a client calls dirty with, besides the default
DirtyRegions == {<<0, 0, 1, 1>>}

\* the elements configured with a visible value of their own; the others
\* have the constant true
Togglable == {"g"}

\* what the client of the tree does: it sizes, dirties and repaints the tree,
\* or it changes content and reads preferred sizes
TreePieces == {"paint", "layout"}

\* the piece in which the client has a listener on an element's valid value
\* (element.valid.onValue(v => { if (v) target.invalidate() })), and the
\* listeners it may have
HookPieces == {"watch"}
NoHook == [on |-> "none", target |-> "none"]
Hooks == {[on |-> a, target |-> b] : a \in Els \ {"root"}, b \in Els}

\* the element state the operations work on
ES == [bounds |-> bounds, psize |-> psize, valid |-> valid,
       dirtyRegion |-> dirtyRegion, issued |-> issued, trace |-> <<>>]

Log(st, ev) == [st EXCEPT !.trace = Append(@, ev)]

\* the fields of the elements as a call finds or leaves them
Snap(st) == [bounds |-> st.bounds, psize |-> st.psize, valid |-> st.valid,
             dirtyRegion |-> st.dirtyRegion]

\* the record of a call that has returned: what it was (ev), how many calls
\* had been recorded when it began, and the fields before and after it
Returned(st0, st, ev) ==
  Log(st, [c \in DOMAIN ev \cup {"at", "before", "after"} |->
             CASE c = "at" -> Len(st0.trace)
               [] c = "before" -> Snap(st0)
               [] c = "after" -> Snap(st)
               [] OTHER -> ev[c]])

RECURSIVE expandBounds(_, _, _)
RECURSIVE expandChildren(_, _, _)
\* Group.expandBounds: the bounds and every child's expanded bounds
expandChildren(st, cs, acc) ==
  IF cs = <<>> THEN acc
  ELSE expandChildren(st, Tail(cs),
                      RectUnion(acc, expandBounds(st, Head(cs), st.bounds[Head(cs)])))

\* Element.expandBounds, and Group's override
expandBounds(st, e, b) ==
  IF e = "g" THEN expandChildren(st, Children(e), b) ELSE b

\* dirty(region) that keeps the last region only
dirty_replace(acc, region) == region

\* Element.dirty: rect.union(_dirtyRegion, _dirtyRegion, region)
dirty_accumulate(acc, region) == RectUnion(acc, region)

\* a set of regions without the empty ones and those within another
Outer(S) ==
  {r \in S : ~RectIsEmpty(r) /\ \A q \in S : q # r => ~RectContainsRect(q, r)}

\* dirty(region) that returns early only when region is the accumulated one
dirty_contained_eq(acc, region) == RectEq(acc, region)

\* Element.dirty: if (rect.containsRect(this._dirtyRegion, region)) return
dirty_contained(acc, region) == RectContainsRect(acc, region)

\* dirty(region) that hands the parent the accumulated rectangle
dirty_toParent_union(acc, region) == acc

\* Element.dirty: this.parent.dirty(region, true); acc is _dirtyRegion by then
dirty_toParent(acc, region) == region

RECURSIVE Element_dirty(_, _, _, _)
\* Element.dirty(region, fromChild)
Element_dirty(st, e, region, fromChild) ==
  LET s1 == [Log(st, [op |-> "dirty", el |-> e, region |-> region,
                      fromChild |-> fromChild])
               EXCEPT !.issued[e] = [any |-> Outer(@.any \cup {region}),
                                     thru |-> Outer(@.thru \cup {region})]]
  IN IF dirty_contained(st.dirtyRegion[e], region) THEN s1
     ELSE LET s2 == [s1 EXCEPT !.dirtyRegion[e] = dirty_accumulate(@, region)]
          IN IF Parent(e) # NoParent
             THEN Element_dirty(s2, Parent(e),
                                dirty_toParent(s2.dirtyRegion[e], region), TRUE)
             ELSE s2

\* an invalidate that hands its own argument on to the parent
invalidate_toParent_same(dirty) == dirty

\* this.parent.invalidate(false): the argument the parent is called with
invalidate_toParent(dirty) == FALSE

\* invalidate() that goes to the parent whatever the element's state
invalidate_always(st, e) == TRUE

\* Element.invalidate: if (this._valid.current)
invalidate_guard(st, e) == st.valid[e]

RECURSIVE Element_invalidate(_, _, _, _)
\* Element.invalidate(dirty); from is the child that made the call, if any
Element_invalidate(st, e, dirty, from) ==
  LET s0 == Log(st, [op |-> "invalidate", el |-> e, dirty |-> dirty,
                     from |-> from, was |-> st.valid[e]])
      s1 == IF invalidate_guard(st, e)
            THEN LET s == [s0 EXCEPT !.valid[e] = FALSE, !.psize[e][1] = Sentinel]
                 IN IF Parent(e) # NoParent
                    THEN Element_invalidate(s, Parent(e),
                                            invalidate_toParent(dirty), e)
                    ELSE s
            ELSE s0
  IN IF dirty
     THEN Element_dirty(s1, e, expandBounds(s1, e, s1.bounds[e]), FALSE)
     ELSE s1

\* setBounds without the test for unchanged bounds
Element_setBounds_unchecked(st, e, b) ==
  LET merged == RectUnion(st.bounds[e], b)
      s1 == [st EXCEPT !.bounds[e] = b]
      s2 == Element_dirty(s1, e, expandBounds(s1, e, merged), FALSE)
  IN Returned(st, Element_invalidate(s2, e, TRUE, NoParent),
              [op |-> "setBounds", el |-> e, bounds |-> b])

\* Element.setBounds(bounds)
Element_setBounds(st, e, b) ==
  LET ev == [op |-> "setBounds", el |-> e, bounds |-> b]
  IN IF RectEq(st.bounds[e], b) THEN Returned(st, st, ev)
     ELSE LET merged == RectUnion(st.bounds[e], b)
              s1 == [st EXCEPT !.bounds[e] = b]
              s2 == Element_dirty(s1, e, expandBounds(s1, e, merged), FALSE)
          IN Returned(st, Element_invalidate(s2, e, TRUE, NoParent), ev)

RECURSIVE preferredSize(_, _)
RECURSIVE computePreferredSize(_, _)
\* computePreferredSize(hintX, hintY, into): the leaf's is its content's
\* size, AbsGroup's the extent of its children, Root's that of its contents
computePreferredSize(st, e) ==
  LET s0 == Log(st, [op |-> "computePreferredSize", el |-> e])
  IN CASE e = "c" -> [st |-> s0, size |-> content]
       [] e = "g" ->
            LET r == preferredSize(s0, "c")
            IN [st |-> r.st, size |-> <<Max(0, ChildPos[1] + r.size[1]),
                                        Max(0, ChildPos[2] + r.size[2])>>]
       [] OTHER -> preferredSize(s0, "g")

\* Element.preferredSize(hintX, hintY)
preferredSize(st, e) ==
  IF st.psize[e][1] < 0
  THEN LET r == computePreferredSize(st, e)
       IN [st |-> [r.st EXCEPT !.psize[e] = r.size], size |-> r.size]
  ELSE [st |-> st, size |-> st.psize[e]]

RECURSIVE Element_validate(_, _)
RECURSIVE validateAll(_, _)
\* a container's revalidate that validates none of its children
validateAll_none(st, cs) == st

\* for (const elem of this.contents) elem.validate()
validateAll(st, cs) ==
  IF cs = <<>> THEN st ELSE validateAll(Element_validate(st, Head(cs)), Tail(cs))

\* relayout: Root gives its contents its own bounds, AbsGroup places each
\* child at its position with its preferred size, the leaf has nothing to do
relayout(st, e) ==
  LET s0 == Log(st, [op |-> "relayout", el |-> e])
  IN CASE e = "root" -> Element_setBounds(s0, "g", s0.bounds["root"])
       [] e = "g" ->
            LET r == preferredSize(s0, "c")
            IN Element_setBounds(r.st, "c",
                                 <<s0.bounds["g"][1] + ChildPos[1],
                                   s0.bounds["g"][2] + ChildPos[2],
                                   r.size[1], r.size[2]>>)
       [] OTHER -> s0

\* revalidate that lays out an element that is not visible too
revalidate_always(st, e) == validateAll(relayout(st, e), Children(e))

\* Element.revalidate, and Root's and Group's, which validate the children
revalidate(st, e) ==
  LET s1 == IF visible[e] THEN relayout(st, e) ELSE st
  IN validateAll(s1, Children(e))

\* this._valid.update(true): the listeners of the element's valid value
\* are called with true, and the client's invalidates its target
valid_update_true(st, e) ==
  LET s1 == [st EXCEPT !.valid[e] = TRUE]
  IN IF hook # NoHook /\ hook.on = e
     THEN Element_invalidate(s1, hook.target, TRUE, NoParent)
     ELSE s1

\* Element.validate()
Element_validate(st, e) ==
  IF st.valid[e]
  THEN Returned(st, st, [op |-> "validate", el |-> e, ret |-> FALSE])
  ELSE LET s1 == revalidate(st, e)
       IN Returned(st, valid_update_true(s1, e),
                   [op |-> "validate", el |-> e, ret |-> TRUE])

RECURSIVE Element_render(_, _, _)
RECURSIVE renderAll(_, _, _)
\* for (const child of this.contents) child.render(canvas, region)
renderAll(st, cs, region) ==
  IF cs = <<>> THEN st
  ELSE renderAll(Element_render(st, Head(cs), region), Tail(cs), region)

\* rerender: Root and Group render their children, the leaf paints
rerender(st, e, region) ==
  LET s0 == Log(st, [op |-> "rerender", el |-> e])
  IN IF Children(e) # <<>> THEN renderAll(s0, Children(e), region)
     ELSE Log(s0, [op |-> "paint", el |-> e])

\* render that clears the dirty rectangle only when it painted
Element_render_painted(st, e, region) ==
  LET s0 == [Log(st, [op |-> "render", el |-> e, region |-> region])
               EXCEPT !.issued[e].any = {}]
      ev == [op |-> "rendered", el |-> e, region |-> region]
  IN IF ~RectIntersects(expandBounds(st, e, st.bounds[e]), region) \/ ~visible[e]
     THEN Returned(s0, s0, ev)
     ELSE Returned(s0, [rerender(s0, e, region)
                          EXCEPT !.dirtyRegion[e] = RectZero,
                                 !.issued[e].thru = {}], ev)

\* Element.render(canvas, region)
Element_render(st, e, region) ==
  LET s0 == [Log(st, [op |-> "render", el |-> e, region |-> region])
               EXCEPT !.issued[e].any = {}]
      ev == [op |-> "rendered", el |-> e, region |-> region]
  IN IF ~RectIntersects(expandBounds(st, e, st.bounds[e]), region)
     THEN Returned(s0, s0, ev)
     ELSE LET s1 == IF visible[e] THEN rerender(s0, e, region) ELSE s0
          IN Returned(s0, [s1 EXCEPT !.dirtyRegion[e] = RectZero,
                                     !.issued[e].thru = {}], ev)

----------------------------------------------------------------------------
(* The Root's pointer input, the focus, and the listeners elements hold *)

\* the tree of the pointer piece: a Root whose contents is a Button, and the
\* element the Button created as its contents
UiEls == {"root", "btn", "lbl"}
UiChildren(e) ==
  CASE e = "root" -> <<"btn">> [] e = "btn" -> <<"lbl">> [] OTHER -> <<>>

\* the order in which a Set of elements filled by applyToContaining iterates
OverOrder == <<"btn", "lbl">>

\* MouseEvent.button, MouseEvent.type, and where the pointer is: inside the
\* Button's bounds (its contents has the same bounds) or outside them
Buttons == {0, 1}
MouseTypes == {"mousedown", "mousemove", "mouseup", "mousecancel"}
Positions == {"in", "out"}

\* the interactions a run follows from their creation on
MaxIacts == 3

NoIact == "none"
NoFocus == "none"

\* Root.contents.applyToContaining(canvas, pos, addToElementsOver)
Containing(pos) == IF pos = "in" THEN {"btn", "lbl"} ELSE {}

\* the signals elements listen to: each element's visible value, the model
\* value a Control is enabled by, a source watched through observe(), and
\* the Root's focus value
Signals == {"visible", "enabled", "source", "focus"}

\* a listener element el has on signal sig; scoped: its Remover was handed to
\* the element's disposer
Reg(sig, el, scoped) == [sig |-> sig, el |-> el, scoped |-> scoped]

\* the listeners the constructors register: invalidateOnChange(visible) in
\* Element, enabled.onValue(updateState) in Control, an Observer in lbl
Regs0 ==
  {Reg("visible", e, TRUE) : e \in UiEls}
    \cup {Reg("enabled", "btn", TRUE), Reg("source", "lbl", TRUE)}

\* the sources an Observer is pointed at, the values they emit, and the
\* value an Observer is created with
Sources == {"s1", "s2"}
SrcVals == {0, 1}
NoopRemover == "noop"

\* an Observer as Element.observe(initial) returns it, and the sources: on,
\* the sources that have its listener; remover, the source its remover
\* field takes the listener off; seen, the sources it has been pointed at
Obs0 ==
  [on |-> {}, remover |-> NoopRemover, current |-> "initial",
   src |-> [s \in Sources |-> 0], seen |-> {}, disposed |-> FALSE]

\* the part of ui that is the program's state
Core(u) ==
  [interacts |-> u.interacts, over |-> u.over, focus |-> u.focus,
   pressed |-> u.pressed, hovered |-> u.hovered, enabled |-> u.enabled,
   regs |-> u.regs, disposed |-> u.disposed, obs |-> u.obs]

NoEv == [type |-> "none"]

InitUI ==
  LET c == [interacts |-> [b \in Buttons |-> NoIact], over |-> {},
            focus |-> NoFocus, pressed |-> FALSE, hovered |-> FALSE,
            enabled |-> TRUE, regs |-> Regs0, disposed |-> {}, obs |-> Obs0]
  IN [interacts |-> c.interacts, over |-> c.over, focus |-> c.focus,
      pressed |-> c.pressed, hovered |-> c.hovered, enabled |-> c.enabled,
      regs |-> c.regs, disposed |-> c.disposed, obs |-> c.obs,
      ev |-> NoEv, log |-> <<>>, raised |-> FALSE, pre |-> c,
      iacts |-> <<>>, ref |-> [b \in Buttons |-> 0]]

\* one thing the last call delivered: a call of an interaction's move,
\* release or cancel, of an element's handleMouseDown, handleMouseEnter or
\* handleMouseLeave, or of a listener of the element on a signal
Delivery(to, el, what) == [to |-> to, el |-> el, what |-> what]
Logged(u, d) == [u EXCEPT !.log = Append(@, d)]

\* the listener Control.focus puts on root.focus, called with fc: a focus
\* that went elsewhere updates the Control's state and removes the listener
focus_listener(u, r, fc) ==
  IF fc # r.el
  THEN [Logged(u, Delivery("listener", r.el, "state")) EXCEPT !.regs = @ \ {r}]
  ELSE u

RECURSIVE FocusDispatch(_, _, _)
FocusDispatch(u, rs, fc) ==
  IF rs = {} THEN u
  ELSE LET r == CHOOSE x \in rs : TRUE
       IN FocusDispatch(focus_listener(u, r, fc), rs \ {r}, fc)

\* root.focus.update(fc): a Mutable with refEquals
Focus_update(u, fc) ==
  IF fc = u.focus THEN u
  ELSE FocusDispatch([u EXCEPT !.focus = fc],
                     {r \in u.regs : r.sig = "focus"}, fc)

\* Control.focus() that hands the Remover of its listener to the disposer
Control_focus_scoped(u, e) ==
  IF ~u.enabled THEN u
  ELSE IF u.focus = e THEN u
  ELSE [Focus_update(u, e) EXCEPT !.regs = @ \cup {Reg("focus", e, TRUE)}]

\* Control.focus()
Control_focus(u, e) ==
  IF ~u.enabled THEN u
  ELSE IF u.focus = e THEN u
  ELSE [Focus_update(u, e) EXCEPT !.regs = @ \cup {Reg("focus", e, FALSE)}]

\* the MouseInteraction objects mouse-down handling has returned, in the
\* order of their creation: the button each was returned for, the release
\* and cancel calls it has received, whether it was called after one of
\* them, and whether its button has since been released, cancelled or
\* pressed; ui.ref[b] is the one the Root's interacts[b] refers to, 0 for none
NewIact(button) ==
  [button |-> button, terminal |-> 0, late |-> FALSE, due |-> FALSE]

\* the interaction interacts[button] refers to receives move, release or cancel
Told(u, button, what) ==
  LET i == u.ref[button]
      a == u.iacts[i]
  IN IF i = 0 THEN u
     ELSE [u EXCEPT !.iacts[i] =
             [a EXCEPT !.late = a.late \/ a.terminal > 0,
                       !.terminal = IF what = "move" THEN a.terminal
                                    ELSE IF a.terminal = 0 THEN 1 ELSE 2]]

RECURSIVE DueAll(_, _)
\* the interactions, those of the button marked
DueAll(as, button) ==
  IF as = <<>> THEN <<>>
  ELSE <<IF Head(as).button = button THEN [Head(as) EXCEPT !.due = TRUE]
         ELSE Head(as)>> \o DueAll(Tail(as), button)

\* a mouseup, mousecancel or mousedown for the button reaches the Root
Due(u, type, button) ==
  IF type = "mousemove" THEN u
  ELSE [u EXCEPT !.iacts = DueAll(@, button)]

\* Button.handleMouseDown: the state it leaves and the interaction it
\* returns, a new object on every call
Button_handleMouseDown(u, button) ==
  LET u1 == Logged(u, Delivery("element", "btn", "down"))
  IN IF button # 0 THEN [u |-> u1, iact |-> NoIact, id |-> 0]
     ELSE [u |-> [Control_focus([u1 EXCEPT !.pressed = TRUE], "btn")
                    EXCEPT !.iacts = Append(@, NewIact(button))],
           iact |-> "btn", id |-> Len(u.iacts) + 1]

\* Element.maybeHandleMouseDown on the Root's contents
maybeHandleMouseDown(u, button, pos) ==
  IF pos = "in" THEN Button_handleMouseDown(u, button)
  ELSE [u |-> u, iact |-> NoIact, id |-> 0]

\* the interaction the Button returned: move, release, cancel
Iact_move(u, pos) ==
  [Logged(u, Delivery("iact", "btn", "move")) EXCEPT !.pressed = (pos = "in")]
Iact_release(u) ==
  [Logged(u, Delivery("iact", "btn", "release")) EXCEPT !.pressed = FALSE]
Iact_cancel(u) ==
  [Logged(u, Delivery("iact", "btn", "cancel")) EXCEPT !.pressed = FALSE]

\* Root._updateElementsOver: handleMouseLeave on the elements the pointer is
\* no longer over, handleMouseEnter on those it is newly over
updateElementsOver(u, pos) ==
  LET now == Containing(pos)
      left == SelectSeq(OverOrder, LAMBDA e : e \in u.over /\ e \notin now)
      entered == SelectSeq(OverOrder, LAMBDA e : e \in now /\ e \notin u.over)
      ds == [i \in 1..Len(left) |-> Delivery("element", left[i], "leave")]
            \o [i \in 1..Len(entered) |-> Delivery("element", entered[i], "enter")]
  IN [u EXCEPT !.log = @ \o ds,
               !.over = now,
               !.hovered = IF "btn" \in Range(entered) THEN TRUE
                           ELSE IF "btn" \in Range(left) THEN FALSE ELSE @]

\* a mousemove that also brings the elements under the pointer up to date
\* while an interaction is active
dispatchMouseMove_hover(u, button, pos) ==
  IF u.interacts[button] # NoIact
  THEN updateElementsOver(Iact_move(Told(u, button, "move"), pos), pos)
  ELSE updateElementsOver(u, pos)

\* Root.dispatchMouseEvent, case "mousemove"
dispatchMouseMove(u, button, pos) ==
  IF u.interacts[button] # NoIact THEN Iact_move(Told(u, button, "move"), pos)
  ELSE updateElementsOver(u, pos)

\* Root.dispatchMouseEvent, case "mousedown": an active interaction is
\* cancelled after a warning on the console, and the press is handled anew
dispatchMouseDown(u, button, pos) ==
  LET u1 == IF u.interacts[button] # NoIact
            THEN Iact_cancel(Told(u, button, "cancel")) ELSE u
      r == maybeHandleMouseDown(u1, button, pos)
      u2 == [r.u EXCEPT !.interacts[button] = r.iact, !.ref[button] = r.id]
  IN IF r.iact = NoIact THEN Focus_update(u2, NoFocus) ELSE u2

\* a mouseup or mousecancel that leaves interacts[button] as it was
dispatchMouseEnd_keep(u, type, button, pos) ==
  IF u.interacts[button] # NoIact
  THEN LET u1 == IF type = "mouseup"
                 THEN Iact_release(Told(u, button, "release"))
                 ELSE Iact_cancel(Told(u, button, "cancel"))
       IN updateElementsOver(u1, pos)
  ELSE u

\* Root.dispatchMouseEvent, cases "mouseup" and "mousecancel"
dispatchMouseEnd(u, type, button, pos) ==
  IF u.interacts[button] # NoIact
  THEN LET u1 == IF type = "mouseup"
                 THEN Iact_release(Told(u, button, "release"))
                 ELSE Iact_cancel(Told(u, button, "cancel"))
       IN updateElementsOver([u1 EXCEPT !.interacts[button] = NoIact,
                                        !.ref[button] = 0], pos)
  ELSE u

\* Root.dispatchMouseEvent(event)
dispatchMouseEvent(u, type, button, pos) ==
  CASE type = "mousedown" -> dispatchMouseDown(u, button, pos)
    [] type = "mousemove" -> dispatchMouseMove(u, button, pos)
    [] OTHER -> dispatchMouseEnd(u, type, button, pos)

RECURSIVE Element_dispose(_, _)
\* Element.dispose: disposer.dispose() invokes the Removers handed to the
\* disposer; Root.dispose and Control.dispose go on to their contents (one
\* element each)
Element_dispose(u, e) ==
  LET u1 == [u EXCEPT !.regs = {r \in @ : ~(r.el = e /\ r.scoped)},
                      !.disposed = @ \cup {e}]
      cs == UiChildren(e)
  IN IF cs = <<>> THEN u1 ELSE Element_dispose(u1, cs[1])

\* what the listener of element el on signal sig does when the signal emits
ListenerEffect(sig) ==
  CASE sig = "visible" -> "invalidate"
    [] sig = "source" -> "dirty"
    [] OTHER -> "state"

\* a signal other than the focus emits: its listeners are called
Signal_dispatch(u, sig) ==
  LET els == SelectSeq(<<"root", "btn", "lbl">>,
                       LAMBDA e : \E r \in u.regs : r.sig = sig /\ r.el = e)
  IN [u EXCEPT !.log = @ \o [i \in 1..Len(els) |->
                               Delivery("listener", els[i], ListenerEffect(sig))]]

----------------------------------------------------------------------------
(* Observer: the helper Element.observe(initial) returns *)

\* the listener Observer.observe registers, called with v: owner.dirty(),
\* current = v, owner.invalidate()
Observer_listener(u, v) ==
  [Logged(Logged(u, Delivery("owner", "lbl", "dirty")),
          Delivery("owner", "lbl", "invalidate"))
     EXCEPT !.obs.current = v]

\* this.remover(): the listener goes from the source the Remover is of
Observer_remover(u) ==
  [u EXCEPT !.obs.on = @ \ {u.obs.remover}]

\* observe(value) without the call of this.remover()
Observer_observe_keep(u, s) ==
  LET u2 == [u EXCEPT !.obs.on = @ \cup {s}, !.obs.seen = @ \cup {s}]
  IN [Observer_listener(u2, u2.obs.src[s]) EXCEPT !.obs.remover = s]

\* Observer.observe(value): this.remover(), then value.onValue(listener),
\* which registers the listener and calls it with the source's value
Observer_observe(u, s) ==
  LET u1 == Observer_remover(u)
      u2 == [u1 EXCEPT !.obs.on = @ \cup {s}, !.obs.seen = @ \cup {s}]
  IN [Observer_listener(u2, u2.obs.src[s]) EXCEPT !.obs.remover = s]

\* Observer.update(value)
Observer_update(u, v) ==
  LET u1 == [Observer_remover(u) EXCEPT !.obs.remover = NoopRemover]
  IN Observer_listener(u1, v)

\* Observer.dispose()
Observer_dispose(u) ==
  [Observer_remover(u) EXCEPT !.obs.disposed = TRUE]

\* source s emits v: its listeners are called with v
Source_emit(u, s, v) ==
  LET u1 == [u EXCEPT !.obs.src[s] = v]
  IN IF s \in u1.obs.on THEN Observer_listener(u1, v) ELSE u1

----------------------------------------------------------------------------
(* Style lookups *)

\* the states an element's styles are configured for, the states it is
\* asked for, and the style a state is configured with
StyledStates == {"normal"}
ElemStates == {"normal", "pressed"}
EmptyStyle == "{}"
StyleOf(state) == "style_" \o state

\* Element.getStyle(styles, state): a missing state warns on the console and
\* yields {}
getStyle(state) ==
  IF state \in StyledStates THEN [raised |-> FALSE, value |-> StyleOf(state)]
  ELSE [raised |-> FALSE, value |-> EmptyStyle]

\* the named definitions of a StyleDefs table, and the specs handed to the
\* resolve functions: an immediate configuration, the id of a definition
\* that exists, the id of one that does not
DefIds == {"known"}
StyleSpecs == {"immediate", "$known", "$missing"}
StyleKinds == {"color", "font", "border", "background", "paint"}

\* id.substring(1), for the id of a definition
Substring1(id) == IF id = "$known" THEN "known" ELSE "missing"

\* readDef(type, defs, id): throws when defs has no such id
readDef(kind, id) ==
  IF Substring1(id) \in DefIds
  THEN [raised |-> FALSE, value |-> "def_" \o kind \o "_" \o Substring1(id)]
  ELSE [raised |-> TRUE, value |-> "Missing " \o kind \o " style def"]

\* StyleContext.resolveColor / resolveFont / resolveBorder /
\* resolveBackground / resolvePaint: an immediate configuration is used as
\* it is, the id of a definition is looked up with readDef
resolve(kind, spec) ==
  IF spec = "immediate" THEN [raised |-> FALSE, value |-> "made_" \o kind]
  ELSE readDef(kind, spec)

----------------------------------------------------------------------------

\* the piece in which the client sends pointer events to a Root, disposes
\* elements, lets signals emit and looks styles up
UiPieces == {"pointer"}

\* ui as a call finds it, and as it leaves it
UiStart == [ui EXCEPT !.log = <<>>, !.raised = FALSE]
UiDone(u, ev) == ui' = [u EXCEPT !.ev = ev, !.pre = Core(ui)]

\* root.dispatchMouseEvent(event): the client sends events to a Root it has
\* not disposed, and the pointer is inside the Button only while the Button
\* is not disposed
Root_dispatchMouseEvent(type, button, pos) ==
  /\ obj \in UiPieces
  /\ "root" \notin ui.disposed
  /\ pos = "in" => "btn" \notin ui.disposed
  /\ LET u == dispatchMouseEvent(Due(UiStart, type, button), type, button, pos)
     IN /\ Len(u.iacts) <= MaxIacts
        /\ UiDone(u, [type |-> type, button |-> button, pos |-> pos])
  /\ UNCHANGED <<rvars, tvars>>

\* control.focus(), on a Control the client has not disposed
Control_focus_call ==
  /\ obj \in UiPieces
  /\ "btn" \notin ui.disposed
  /\ UiDone(Control_focus(UiStart, "btn"), [type |-> "focus", el |-> "btn"])
  /\ UNCHANGED <<rvars, tvars>>

\* element.dispose()
Elem_dispose(e) ==
  /\ obj \in UiPieces
  /\ UiDone(Element_dispose(UiStart, e), [type |-> "dispose", el |-> e])
  /\ UNCHANGED <<rvars, tvars>>

\* a visible value, the enabled value or an observed source emits
Signal_emit(sig) ==
  /\ obj \in UiPieces
  /\ LET u1 == IF sig = "enabled" THEN [UiStart EXCEPT !.enabled = ~@]
               ELSE UiStart
     IN UiDone(Signal_dispatch(u1, sig), [type |-> "emit", sig |-> sig])
  /\ UNCHANGED <<rvars, tvars>>

\* element.getStyle(styles, state)
Style_getStyle(state) ==
  /\ obj \in UiPieces
  /\ LET r == getStyle(state)
     IN UiDone([UiStart EXCEPT !.raised = r.raised],
               [type |-> "getStyle", key |-> state, value |-> r.value,
                missing |-> state \notin StyledStates])
  /\ UNCHANGED <<rvars, tvars>>

\* ctx.style.resolveColor(spec), resolveFont(spec), ...
Style_resolve(kind, spec) ==
  /\ obj \in UiPieces
  /\ LET r == resolve(kind, spec)
     IN UiDone([UiStart EXCEPT !.raised = r.raised],
               [type |-> "resolve", key |-> spec, value |-> r.value,
                missing |-> spec = "$missing"])
  /\ UNCHANGED <<rvars, tvars>>

\* the piece in which the client points an Observer at sources
ObsPieces == {"observer"}

\* observer.observe(source), on an Observer not disposed
Obs_observe(s) ==
  /\ obj \in ObsPieces
  /\ ~ui.obs.disposed
  /\ UiDone(Observer_observe(UiStart, s), [type |-> "observe", src |-> s])
  /\ UNCHANGED <<rvars, tvars>>

\* observer.update(value), on an Observer not disposed
Obs_update(v) ==
  /\ obj \in ObsPieces
  /\ ~ui.obs.disposed
  /\ UiDone(Observer_update(UiStart, v), [type |-> "set", value |-> v])
  /\ UNCHANGED <<rvars, tvars>>

\* observer.dispose(), as the owner's disposer calls it
Obs_dispose ==
  /\ obj \in ObsPieces
  /\ UiDone(Observer_dispose(UiStart), [type |-> "obsDispose"])
  /\ UNCHANGED <<rvars, tvars>>

\* a source emits a value
Src_emit(s, v) ==
  /\ obj \in ObsPieces
  /\ UiDone(Source_emit(UiStart, s, v), [type |-> "srcEmit", src |-> s, value |-> v])
  /\ UNCHANGED <<rvars, tvars>>

----------------------------------------------------------------------------
(* Calls on the element tree *)

NoIssued == [any |-> {}, thru |-> {}]

\* the element state a call starts from
EPre == [bounds |-> bounds, psize |-> psize, valid |-> valid,
         dirtyRegion |-> dirtyRegion, issued |-> issued, visible |-> visible,
         content |-> content]

\* the state a call leaves, and the calls it made
Commit(st) ==
  /\ bounds' = st.bounds
  /\ psize' = st.psize
  /\ valid' = st.valid
  /\ dirtyRegion' = st.dirtyRegion
  /\ issued' = st.issued
  /\ trace' = st.trace
  /\ epre' = EPre
  /\ hook' = hook
  /\ ui' = ui

\* Root.setSize(size)
Root_setSize(size) ==
  /\ obj \in {"paint"} \cup HookPieces
  /\ LET s1 == Element_setBounds(ES, "root", <<0, 0, size[1], size[2]>>)
         s2 == Element_validate(s1, "root")
         s3 == Element_render(s2, "root", s2.bounds["root"])
     IN Commit(s3)
  /\ ecall' = [op |-> "setSize", el |-> "root", size |-> size]
  /\ UNCHANGED <<rvars, autoSize, content, visible>>

\* Root.update(clock); no clock listener is registered. The record of the
\* call keeps which call it came after
Root_update ==
  /\ obj \in TreePieces \cup HookPieces
  /\ LET s1 == IF ~valid["root"] /\ autoSize
               THEN LET r == computePreferredSize(ES, "root")
                    IN Element_setBounds(r.st, "root",
                                         <<0, 0, r.size[1], r.size[2]>>)
               ELSE ES
         s2 == Element_validate(s1, "root")
         changed == ~s1.valid["root"] \/ ~RectIsEmpty(s2.dirtyRegion["root"])
         s3 == IF changed
               THEN Element_render(s2, "root", s2.dirtyRegion["root"])
               ELSE s2
     IN /\ Commit(s3)
        /\ ecall' = [op |-> "update", el |-> "root", ret |-> changed,
                     mid |-> s2.dirtyRegion["root"], after |-> ecall.op]
  /\ UNCHANGED <<rvars, autoSize, content, visible>>

\* invalidate() on an element, as a listener of one of its sources calls it
Elem_invalidate(e) ==
  /\ obj \in TreePieces \cup HookPieces
  /\ Commit(Element_invalidate(ES, e, TRUE, NoParent))
  /\ ecall' = [op |-> "invalidate", el |-> e]
  /\ UNCHANGED <<rvars, autoSize, content, visible>>

\* dirty(region) on an element
Elem_dirty(e, region) ==
  /\ obj = "paint"
  /\ Commit(Element_dirty(ES, e, region, FALSE))
  /\ ecall' = [op |-> "dirty", el |-> e, region |-> region]
  /\ UNCHANGED <<rvars, autoSize, content, visible>>

\* dirty() on an element: the region is its expanded bounds
Elem_dirty_default(e) ==
  /\ obj = "paint"
  /\ LET region == expandBounds(ES, e, bounds[e])
     IN /\ Commit(Element_dirty(ES, e, region, FALSE))
        /\ ecall' = [op |-> "dirty", el |-> e, region |-> region]
  /\ UNCHANGED <<rvars, autoSize, content, visible>>

\* preferredSize(hintX, hintY) read on an element
Elem_preferredSize(e) ==
  /\ obj = "layout"
  /\ LET r == preferredSize(ES, e)
     IN /\ Commit(r.st)
        /\ ecall' = [op |-> "preferredSize", el |-> e, ret |-> r.size]
  /\ UNCHANGED <<rvars, autoSize, content, visible>>

\* the element's visible value changes: invalidateOnChange(this.visible)
Visible_update(e, v) ==
  /\ obj = "paint"
  /\ visible' = [visible EXCEPT ![e] = v]
  /\ Commit(IF v # visible[e] THEN Element_invalidate(ES, e, TRUE, NoParent)
            ELSE ES)
  /\ ecall' = [op |-> "visible", el |-> e, v |-> v]
  /\ UNCHANGED <<rvars, autoSize, content>>

\* the leaf's content changes and its listener invalidates the leaf
Leaf_setContent(size) ==
  /\ obj = "layout"
  /\ content' = size
  /\ Commit(Element_invalidate(ES, "c", TRUE, NoParent))
  /\ ecall' = [op |-> "invalidate", el |-> "c"]
  /\ UNCHANGED <<rvars, autoSize, visible>>

\* the tree as constructed: nothing valid, no size cached, no bounds
InitTree ==
  /\ content = <<1, 1>>
  /\ visible = [e \in Els |-> TRUE]
  /\ bounds = [e \in Els |-> RectZero]
  /\ psize = [e \in Els |-> NoSize]
  /\ valid = [e \in Els |-> FALSE]
  /\ dirtyRegion = [e \in Els |-> RectZero]
  /\ issued = [e \in Els |-> NoIssued]
  /\ ecall = NoCall
  /\ epre = [bounds |-> [e \in Els |-> RectZero], psize |-> [e \in Els |-> NoSize],
             valid |-> [e \in Els |-> FALSE],
             dirtyRegion |-> [e \in Els |-> RectZero],
             issued |-> [e \in Els |-> NoIssued],
             visible |-> [e \in Els |-> TRUE], content |-> <<1, 1>>]
  /\ trace = <<>>
  /\ hook \in (IF obj \in HookPieces THEN Hooks ELSE {NoHook})
  /\ ui = InitUI

----------------------------------------------------------------------------
(* The reactive core *)

NoData == [m \in Maps |-> <<>>]

\* the reactive objects as constructed
InitObjects ==
  /\ mEq \in (IF obj \in MutablePieces THEN EqKinds ELSE {"refEquals"})
  /\ mCur = 0
  /\ lEq \in (IF obj = "list" THEN EqKinds ELSE {"refEquals"})
  /\ elems = <<>>
  /\ lIns = TRUE
  /\ sdata = <<>>
  /\ mdata = NoData
  /\ sel = "mapA"
  /\ lns = [o \in Objects |-> <<>>]
  /\ subs = <<>>
  /\ scn = [name |-> "none", step |-> 0, log |-> <<>>]
  /\ call = NoCall
  /\ pre = [mCur |-> 0, elems |-> <<>>, lIns |-> TRUE, sdata |-> <<>>, mdata |-> NoData,
            sel |-> "mapA", lns |-> [o \in Objects |-> <<>>], subs |-> <<>>]
  /\ out = <<>>

NextReact ==
  \/ \E v \in MVals : Mutable_update(v)
  \/ Value_onValue
  \/ Value_onEmit
  \/ \E e \in ListElems, i \in 0..MaxLen : List_insert(e, i)
  \/ \E e \in ListElems : List_append(e)
  \/ \E e \in ListElems, i \in 0..(MaxLen - 1) : List_update(i, e)
  \/ \E i \in 0..MaxLen : List_delete(i)
  \/ List_onChange
  \/ List_onEmit
  \/ List_onValue
  \/ \E e \in Elems : Set_add(e)
  \/ \E e \in Elems : Set_delete(e)
  \/ Set_onChange
  \/ Set_onValue
  \/ Set_hasValue
  \/ \E m \in Maps, k \in Keys : \E v \in MapVals(m, k) : Map_set(m, k, v)
  \/ \E m \in Maps, k \in Keys : Map_delete(m, k)
  \/ Map_onChange
  \/ Map_onValue
  \/ \E pe \in ProjEqs : Map_projectValue(pe[1], pe[2])
  \/ \E m \in Maps : Sel_update(m)
  \/ \E id \in 1..MaxSubs : Remover(id)

InitReact ==
  /\ obj \in Pieces
  /\ InitObjects
  /\ InitTree
  /\ autoSize = FALSE

SpecReact == InitReact /\ [][NextReact]_vars

----------------------------------------------------------------------------
(* The pieces in which the client clears collections and watches them *)

\* the collections of these pieces: a list, a set, a map, a SwitchMap
CollPieces == {"list", "set", "map", "switch"}

----------------------------------------------------------------------------
(* sizeValue and map(fn): Values and Sources the collections derive *)

\* what the client watches in this piece, and the map a listener put on it
\* is registered with
CollTarget == IF obj \in {"list", "set"} THEN obj ELSE Target
CollMap == IF obj \in {"list", "set"} THEN obj ELSE TargetMap

\* collection.onChange(listener) for listener id
CollRegister(id) ==
  IF obj \in {"list", "set"} THEN [lns EXCEPT ![obj] = addListener(@, id)]
  ELSE Map_register(id)

\* the subscriptions the client made itself
Observers == {i \in DOMAIN subs : subs[i].kind \notin ConnKinds}

\* room for one more of them
WatchRoom ==
  Cardinality(Observers) < (IF obj = "switch" THEN MaxSwitchSubs ELSE MaxSubs)

\* w.onEmit(fn), w a sizeValue or a mapped Source: the first observer makes
\* w put its listener on the collection
Watch_onEmit(w) ==
  /\ WatchRoom
  /\ LET id == Len(subs) + 1
         conn == id + 1
         first == lns[w] = <<>>
         l1 == IF first THEN CollRegister(conn) ELSE lns
     IN /\ subs' = IF first
                   THEN subs \o <<Sub(w, "onEmit"),
                                  SubKey(CollTarget, ConnKind(w), Undefined, "id",
                                         "refEquals", CollMap)>>
                   ELSE Append(subs, Sub(w, "onEmit"))
        /\ lns' = [l1 EXCEPT ![w] = addListener(@, id)]
        /\ call' = [op |-> "onEmit", obj |-> w, id |-> id]
  /\ out' = <<>>
  /\ scn' = ScnOff
  /\ pre' = Pre
  /\ UNCHANGED evars
  /\ UNCHANGED <<obj, mvars, lvars, svars, pvars>>

\* collection.sizeValue.onEmit(fn), on a set, a map, a SwitchMap
SizeValue_onEmit ==
  /\ obj \in {"set", "map", "switch"}
  /\ Watch_onEmit("size")

\* source.onEmit(fn), source the Source collection.map(fn) returned
Mapped_onEmit ==
  /\ obj \in CollPieces
  /\ Watch_onEmit("mapped")

----------------------------------------------------------------------------
(* clear() on a list, a set, a map *)

\* a loop that deletes the first element each time round
clear_index_front(length) == 0

\* MutableList.clear: the index it deletes while length > 0
clear_index(length) == length - 1

RECURSIVE MutableList_clear(_)
\* MutableList.clear: while (this.length > 0) this.delete(this.length-1);
\* the elements left, the events and the invocations, the times round the loop
MutableList_clear(es) ==
  IF ~(Len(es) > 0) THEN [data |-> es, events |-> <<>>, out |-> <<>>, rounds |-> 0]
  ELSE LET index == clear_index(Len(es))
           prev == ElemAt(es, index)
           nes == SpliceOut(es, index)
           r == MutableList_clear(nes)
       IN [data |-> r.data,
           events |-> <<ListDeleted(index, prev)>> \o r.events,
           out |-> dispatchValue(lns["list"], ListDeleted(index, prev), nes) \o r.out,
           rounds |-> r.rounds + 1]

RECURSIVE MutableSet_clear(_, _)
\* MutableSet.clear: for (const elem of this) this.delete(elem); todo is what
\* the iterator has yet to visit, d the set as the deletions leave it
MutableSet_clear(todo, d) ==
  IF todo = <<>> THEN [data |-> d, events |-> <<>>, out |-> <<>>, rounds |-> 0]
  ELSE LET elem == Head(todo)
           changed == SetHas(d, elem)
           nd == Without(d, elem)
           r == MutableSet_clear(Tail(todo), nd)
       IN [data |-> r.data,
           events |-> (IF changed THEN <<SetDeleted(elem)>> ELSE <<>>) \o r.events,
           out |-> (IF changed
                    THEN dispatchValue(lns["set"], SetDeleted(elem), nd) ELSE <<>>)
                   \o r.out,
           rounds |-> r.rounds + 1]

RECURSIVE MutableMap_clear(_, _, _)
\* MutableMap.clear: for (const key of this.keys()) this.delete(key)
MutableMap_clear(m, todo, d) ==
  IF todo = <<>> THEN [data |-> d, events |-> <<>>, out |-> <<>>, rounds |-> 0]
  ELSE LET key == Head(todo).k
           prev == MapGet(d, key)
           changed == MapHas(d, key)
           nd == MapDel(d, key)
           r == MutableMap_clear(m, Tail(todo), nd)
       IN [data |-> r.data,
           events |-> (IF changed THEN <<MapDeleted(key, prev)>> ELSE <<>>) \o r.events,
           out |-> (IF changed
                    THEN dispatchValue(lns[m], MapDeleted(key, prev), nd) ELSE <<>>)
                   \o r.out,
           rounds |-> r.rounds + 1]

\* list.clear()
List_clear ==
  /\ obj = "list"
  /\ LET r == MutableList_clear(elems)
     IN /\ elems' = r.data
        /\ out' = r.out
        /\ call' = [op |-> "clear", obj |-> "list", events |-> r.events,
                    rounds |-> r.rounds]
  /\ scn' = ScnOff
  /\ pre' = Pre
  /\ UNCHANGED evars
  /\ UNCHANGED <<obj, mvars, lEq, svars, pvars, lns, subs>>
  /\ lIns' = FALSE

\* set.clear()
Set_clear ==
  /\ obj = "set"
  /\ LET r == MutableSet_clear(sdata, sdata)
     IN /\ sdata' = r.data
        /\ out' = r.out
        /\ call' = [op |-> "clear", obj |-> "set", events |-> r.events,
                    rounds |-> r.rounds]
  /\ scn' = ScnOff
  /\ pre' = Pre
  /\ UNCHANGED evars
  /\ UNCHANGED <<obj, mvars, lvars, pvars, lns, subs>>

\* map.clear()
Map_clear(m) ==
  /\ obj = "switch" \/ (obj = "map" /\ m = "mapA")
  /\ LET r == MutableMap_clear(m, mdata[m], mdata[m])
     IN /\ mdata' = [mdata EXCEPT ![m] = r.data]
        /\ out' = r.out
        /\ call' = [op |-> "clear", obj |-> m, events |-> r.events,
                    rounds |-> r.rounds]
  /\ scn' = ScnOff
  /\ pre' = Pre
  /\ UNCHANGED evars
  /\ UNCHANGED <<obj, mvars, lvars, svars, sel, lns, subs>>

----------------------------------------------------------------------------

(* Listeners that change the registry, and a derived Value *)

InitDispatch ==
  /\ obj \in DispatchPieces
  /\ InitObjects
  /\ InitTree
  /\ autoSize = FALSE

NextDispatch ==
  \/ \E act \in Acts : Fn_onChange(act)
  \/ Fn_append("a")
  \/ Fn_delete
  \/ \E v \in MVals : Mutable_update(v)
  \/ Value_onValue
  \/ Value_onEmit
  \/ Derived_onValue
  \/ \E id \in 1..MaxFnSubs : Remover(id)

SpecDispatch == InitDispatch /\ [][NextDispatch]_vars

----------------------------------------------------------------------------
(* The element tree *)

InitElem ==
  /\ obj \in TreePieces
  /\ InitObjects
  /\ InitTree
  /\ autoSize \in (IF obj = "layout" THEN BOOLEAN ELSE {FALSE})

NextElem ==
  \/ \E size \in RootSizes : Root_setSize(size)
  \/ Root_update
  \/ \E e \in Els : Elem_invalidate(e)
  \/ \E e \in Els, region \in DirtyRegions : Elem_dirty(e, region)
  \/ \E e \in Els : Elem_dirty_default(e)
  \/ \E e \in Els : Elem_preferredSize(e)
  \/ \E e \in Togglable, v \in BOOLEAN : Visible_update(e, v)
  \/ \E size \in ContentSizes : Leaf_setContent(size)

SpecElem == InitElem /\ [][NextElem]_vars

----------------------------------------------------------------------------
(* Validation with a listener on an element's valid value *)

InitValid ==
  /\ obj \in HookPieces
  /\ InitObjects
  /\ InitTree
  /\ autoSize = FALSE

NextValid ==
  \/ \E size \in RootSizes : Root_setSize(size)
  \/ Root_update
  \/ \E e \in Els : Elem_invalidate(e)

SpecValid == InitValid /\ [][NextValid]_vars

----------------------------------------------------------------------------
(* Pointer input, focus, disposal, styles *)

InitUi ==
  /\ obj \in UiPieces
  /\ InitObjects
  /\ InitTree
  /\ autoSize = FALSE

NextUi ==
  \/ \E type \in MouseTypes, button \in Buttons, pos \in Positions :
       Root_dispatchMouseEvent(type, button, pos)
  \/ Control_focus_call
  \/ \E e \in UiEls : Elem_dispose(e)
  \/ \E sig \in Signals \ {"focus"} : Signal_emit(sig)
  \/ \E state \in ElemStates : Style_getStyle(state)
  \/ \E kind \in StyleKinds, spec \in StyleSpecs : Style_resolve(kind, spec)

SpecUi == InitUi /\ [][NextUi]_vars

----------------------------------------------------------------------------
(* An Observer and its sources *)

InitObs ==
  /\ obj \in ObsPieces
  /\ InitObjects
  /\ InitTree
  /\ autoSize = FALSE

NextObs ==
  \/ \E s \in Sources : Obs_observe(s)
  \/ \E v \in SrcVals : Obs_update(v)
  \/ Obs_dispose
  \/ \E s \in Sources, v \in SrcVals : Src_emit(s, v)

SpecObs == InitObs /\ [][NextObs]_vars

----------------------------------------------------------------------------
(* What the last call did, read off call, pre and out *)

\* the invocations the last call made of subscription id's callback
Calls(id) == SelectSeq(out, LAMBDA c : c.id = id)

\* the contents of object o before and after the last call; a SwitchMap
\* holds the contents of the map its Value selects
Before(o) ==
  CASE o = "mutable" -> pre.mCur
    [] o = "list" -> pre.elems
    [] o = "set" -> pre.sdata
    [] o \in Maps -> pre.mdata[o]
    [] OTHER -> pre.mdata[pre.sel]

After(o) ==
  CASE o = "mutable" -> mCur
    [] o = "list" -> elems
    [] o = "set" -> sdata
    [] o \in Maps -> mdata[o]
    [] OTHER -> mdata[sel]

\* the last call was a change of a Mutable or of a collection
IsChange == call.op \in {"update", "insert", "append", "delete", "add", "set"}

\* the last call was one of the collection mutation methods
IsMutation == IsChange /\ call.obj \in {"list", "set", "mapA", "mapB"}

\* the changes the last call made, as its listeners are told of them
Changes ==
  IF call.obj = "mutable"
  THEN IF Eq(mEq, call.v, pre.mCur) THEN <<>> ELSE <<ValueEv(call.v)>>
  ELSE call.events

\* the listeners registered on the object the last call was made on
Registered == Range(pre.lns[call.obj])

OnChangeListeners == {id \in Registered : pre.subs[id].kind = "onChange"}

----------------------------------------------------------------------------
(* Mutable, subscription and Remover contracts *)

\* C1: Mutable.update(v) calls no listener and leaves current alone exactly
\* when eq(v, current) held at the call; otherwise current is v by the time
\* any listener runs (a listener reading current sees v) and every registered
\* listener is called once, in order, with v.
C1 ==
  (call.op = "update" /\ call.obj = "mutable") =>
    IF Eq(mEq, call.v, pre.mCur)
    THEN out = <<>> /\ mCur = pre.mCur
    ELSE /\ mCur = call.v
         /\ mCur # pre.mCur
         /\ Len(out) = Len(pre.lns["mutable"])
         /\ \A i \in 1..Len(out) :
              out[i] = Invoke(pre.lns["mutable"][i], ValueEv(call.v), call.v)

\* an update that is dispatched to two or more listeners
C1_witness ==
  /\ call.op = "update" /\ call.obj = "mutable"
  /\ ~Eq(mEq, call.v, pre.mCur)
  /\ Len(out) >= 2

\* C2: onValue(fn) on a Value or a collection calls fn exactly once at
\* subscription with the current snapshot; afterwards fn is called once per
\* change (a Mutable's update to a value not eq to current, a collection's
\* change event), in order, and not at all once removed.  onEmit(fn) does not
\* call fn at subscription.  Scenario A logs [0, 5].
C2 ==
  /\ call.op = "onValue" =>
       out = <<Invoke(call.id,
                      IF call.obj = "mutable" THEN ValueEv(pre.mCur) ELSE CurrentEv,
                      Before(call.obj))>>
  /\ call.op = "onEmit" => out = <<>>
  /\ IsChange =>
       \A id \in DOMAIN pre.subs :
         pre.subs[id].kind \in {"onValue", "onEmit"} =>
           Calls(id) = IF id \in Registered
                       THEN [i \in 1..Len(Changes) |->
                               Invoke(id, Changes[i], After(call.obj))]
                       ELSE <<>>
  /\ (scn.name = "A" /\ scn.step = 4) => scn.log = <<ValueEv(0), ValueEv(5)>>

\* scenario A has been run to its end
C2_witness == scn.name = "A" /\ scn.step = 4 /\ mCur = 5

\* the event a mutation call stands for, built from its arguments and the
\* contents it found
C7_event ==
  CASE call.obj = "list" /\ call.op = "insert" -> ListAdded(call.index, call.elem)
    [] call.obj = "list" /\ call.op = "append" ->
         ListAdded(Len(pre.elems), call.elem)
    [] call.obj = "list" /\ call.op = "update" ->
         ListUpdated(call.index, call.elem, ElemAt(pre.elems, call.index))
    [] call.obj = "list" /\ call.op = "delete" ->
         ListDeleted(call.index, ElemAt(pre.elems, call.index))
    [] call.obj = "set" /\ call.op = "add" -> SetAdded(call.elem)
    [] call.obj = "set" /\ call.op = "delete" -> SetDeleted(call.elem)
    [] call.obj \in Maps /\ call.op = "set" ->
         MapSet(call.key, call.value, MapGet(pre.mdata[call.obj], call.key))
    [] call.obj \in Maps /\ call.op = "delete" ->
         MapDeleted(call.key, MapGet(pre.mdata[call.obj], call.key))

\* the mutation calls that deliver an event: those that change the contents,
\* every map set, and every list delete
C7_delivers ==
  \/ After(call.obj) # Before(call.obj)
  \/ call.obj \in Maps /\ call.op = "set"
  \/ call.obj = "list" /\ call.op = "delete"

\* C7 as stated: every mutation call other than clear delivers exactly one
\* change event to each registered onChange listener.
C7_orig ==
  IsMutation =>
    \A id \in OnChangeListeners :
      Calls(id) = <<Invoke(id, C7_event, After(call.obj))>>

\* C7: a mutation call other than clear that changes the contents, and every
\* map set, changes the store and then delivers exactly one change event to
\* each registered onChange listener, which sees the contents after the
\* mutation; the event carries the index/element/key with the new and the
\* previous value.  A call that leaves the contents as they were delivers no
\* event, except map set and a list delete past the end, which deliver one.
C7 ==
  IsMutation =>
    \A id \in OnChangeListeners :
      Calls(id) = IF C7_delivers
                  THEN <<Invoke(id, C7_event, After(call.obj))>>
                  ELSE <<>>

\* a list delete within bounds, delivered to an onChange listener
C7_witness ==
  /\ call.op = "delete" /\ call.obj = "list"
  /\ call.index < Len(pre.elems)
  /\ OnChangeListeners # {}
  /\ out # <<>>

\* what insert(e, i) promises: e at position i, the elements from i on moved
\* up by one, one added event with index i and elem e
C8_inserted ==
  /\ Len(elems) = Len(pre.elems) + 1
  /\ ElemAt(elems, call.index) = call.elem
  /\ \A j \in 0..(Len(pre.elems) - 1) :
       ElemAt(elems, IF j >= call.index THEN j + 1 ELSE j) = ElemAt(pre.elems, j)
  /\ call.events = <<ListAdded(call.index, call.elem)>>
  /\ \A id \in OnChangeListeners :
       Calls(id) = <<Invoke(id, ListAdded(call.index, call.elem), elems)>>

\* scenario C: ["b", "a"], added events at indices 0 and 0
C8_scenario ==
  (scn.name = "C" /\ scn.step = 3) =>
    /\ elems = <<"b", "a">>
    /\ scn.log = <<ListAdded(0, "a"), ListAdded(0, "b")>>

\* C8 as stated: on a fresh list changed by insert calls only, every
\* insert(e, i) with i >= 0 puts e at position i.
C8_orig ==
  /\ (call.op = "insert" /\ pre.lIns) => C8_inserted
  /\ C8_scenario

\* C8: on a fresh list changed by insert calls only, every insert(e, i) with
\* 0 <= i <= length puts e at position i, moves the elements from i on up by
\* one, grows the length by one and emits one added event with index i and
\* elem e.  Scenario C yields ["b", "a"] with added events at 0 and 0.
C8 ==
  /\ (call.op = "insert" /\ pre.lIns /\ call.index <= Len(pre.elems)) =>
       C8_inserted
  /\ C8_scenario

\* scenario C has been run to its end
C8_witness == scn.name = "C" /\ scn.step = 3 /\ Len(elems) = 2

\* what the derived per-key Value of subscription s holds when its
\* collection holds d
Projection(s, d) ==
  IF s.kind = "hasValue" THEN SetHas(d, s.key)
  ELSE LET v == MapGet(d, s.key)
       IN IF v = Undefined THEN Undefined ELSE Proj(s.proj, v)

\* C9: the observer of a hasValue / getValue / projectValue is called only by
\* a change for its own key or element whose projected old and new values
\* differ under its eq, once, and the derived Value's current is then the
\* projection of the collection's present content.
C9 ==
  \A i \in 1..Len(out) :
    LET s == subs[out[i].id]
        old == Projection(s, Before(call.obj))
        new == Projection(s, After(call.obj))
    IN s.kind \in {"hasValue", "projectValue"} =>
         /\ IsChange
         /\ \E e \in Range(call.events) :
              (IF s.kind = "hasValue" THEN e.elem ELSE e.key) = s.key
         /\ ~ElemEq(s.eq, old, new)
         /\ out[i].ev = DerivedEv(new, old)
         /\ out[i].seen = new
         /\ Len(Calls(out[i].id)) = 1

\* a set of the watched key to another reference with equal data, which the
\* observer of a projectValue with the custom eq is not told of
C9_witness ==
  /\ call.op = "set" /\ call.obj \in Maps /\ call.key = WatchedKey
  /\ MapGet(pre.mdata[call.obj], WatchedKey) = "b" /\ call.value = "B"
  /\ \E id \in Registered :
       /\ subs[id].kind = "projectValue" /\ subs[id].eq = "custom"
       /\ Calls(id) = <<>>

----------------------------------------------------------------------------
(* Collections: clear, sizeValue, map(fn) *)

InitColl ==
  /\ obj \in CollPieces
  /\ InitObjects
  /\ InitTree
  /\ autoSize = FALSE

NextColl ==
  \/ \E e \in ListElems : List_append(e)
  \/ List_clear
  \/ List_onChange
  \/ \E e \in Elems : Set_add(e)
  \/ \E e \in Elems : Set_delete(e)
  \/ Set_clear
  \/ Set_onChange
  \/ \E m \in Maps, k \in Keys : \E v \in MapVals(m, k) : Map_set(m, k, v)
  \/ \E m \in Maps, k \in Keys : Map_delete(m, k)
  \/ \E m \in Maps : Map_clear(m)
  \/ Map_onChange
  \/ \E m \in Maps : Sel_update(m)
  \/ SizeValue_onEmit
  \/ Mapped_onEmit
  \/ \E id \in 1..(2 * MaxSubs) : Remover(id)

SpecColl == InitColl /\ [][NextColl]_vars

----------------------------------------------------------------------------

(* Dispatch contracts: removal and subscription during a pass, order *)

\* entry c of out is a call of a listener's callback with an event
IsCallback(c) == c.ev.type \notin {"remover", "subscribed"}

\* the calls the last call made of the callback of subscription id
CallbackCalls(id) == SelectSeq(out, LAMBDA c : c.id = id /\ IsCallback(c))

\* the Remover invocations the callbacks made during the last call
RemoverCalls == {j \in 1..Len(out) : out[j].ev.type = "remover"}

\* the last call was a pass over the list's listeners
ListPass == obj = "reenter" /\ call.op \in {"append", "delete"}

\* C11: once a listener's Remover has been invoked, that listener is never
\* invoked again: not for any later event, and not for the event being
\* dispatched when the Remover is invoked from inside another listener's
\* callback, or its own, earlier in the same pass.
C11 ==
  /\ \A i \in 1..Len(out) :
       IsCallback(out[i]) =>
         /\ out[i].id \in DOMAIN pre.subs => ~pre.subs[out[i].id].rm
         /\ \A j \in RemoverCalls : j < i => out[j].id # out[i].id
  /\ \A id \in DOMAIN subs :
       subs[id].rm => \A o \in Objects : id \notin Range(lns[o])

\* a pass in which the callback of one listener invokes the Remover of a
\* listener subscribed after it, which the pass then does not call
C11_witness ==
  /\ ListPass
  /\ \E j \in RemoverCalls :
       /\ out[j].id > out[j].ev.by
       /\ out[j].id \in Range(pre.lns["list"])
       /\ CallbackCalls(out[j].id) = <<>>

\* C12: during one pass over a registry, a listener added by a callback is
\* not invoked in that pass, and when a callback removes itself or another
\* listener, every listener that is still registered and was registered
\* before the pass began is invoked exactly once in that pass.
C12 ==
  ListPass =>
    /\ \A id \in DOMAIN subs \ DOMAIN pre.subs : CallbackCalls(id) = <<>>
    /\ \A id \in Range(pre.lns["list"]) :
         /\ Len(CallbackCalls(id)) <= 1
         /\ id \in Range(lns["list"]) => Len(CallbackCalls(id)) = 1

\* a pass in which the first listener removes itself, the one after it is
\* called all the same, and a listener subscribed by a callback is not
C12_witness ==
  /\ ListPass
  /\ \E j \in RemoverCalls :
       /\ out[j].id = out[j].ev.by
       /\ out[j].id = Head(pre.lns["list"])
       /\ Len(pre.lns["list"]) >= 2
       /\ Len(CallbackCalls(pre.lns["list"][2])) = 1
  /\ DOMAIN subs # DOMAIN pre.subs

\* where x stands in the sequence s
Index(s, x) == CHOOSE i \in 1..Len(s) : s[i] = x

\* the listeners of the Mutable and of the Value derived from it, as the
\* last call found them
Ups == Range(pre.lns["mutable"]) \ {Conn}
Downs == Range(pre.lns["derived"])

\* listener a was subscribed, or the derived Value it listens to began to
\* listen to the Mutable, before listener b was
Earlier(a, b) ==
  LET ups == pre.lns["mutable"]
      downs == pre.lns["derived"]
  IN CASE a \in Ups /\ b \in Ups -> Index(ups, a) < Index(ups, b)
       [] a \in Downs /\ b \in Downs -> Index(downs, a) < Index(downs, b)
       [] a \in Ups /\ b \in Downs -> Index(ups, a) < Index(ups, Conn)
       [] a \in Downs /\ b \in Ups -> Index(ups, Conn) < Index(ups, b)

\* C13: within one registry listeners are notified in the order in which
\* they subscribed, and an update of a Mutable reaches the listeners of a
\* Value derived from it inside the Mutable's dispatch: when update(v)
\* returns every listener of the Mutable has been called once, and every
\* listener of the derived Value once if the derived value changed.
C13 ==
  (obj = "derive" /\ call.op = "update") =>
    LET changed == ~Eq(mEq, call.v, pre.mCur)
        nvalue == DerivedFn(call.v)
        ovalue == DerivedFn(pre.mCur)
    IN /\ \A i, j \in 1..Len(out) : i < j => Earlier(out[i].id, out[j].id)
       /\ \A id \in Ups :
            Calls(id) = IF changed THEN <<Invoke(id, ValueEv(call.v), call.v)>>
                        ELSE <<>>
       /\ \A id \in Downs :
            Calls(id) = IF changed /\ nvalue # ovalue
                        THEN <<Invoke(id, DerivedEv(nvalue, ovalue), nvalue)>>
                        ELSE <<>>
       /\ \A i \in 1..Len(out) : out[i].id \in Ups \cup Downs

\* an update that calls a listener of the Mutable and then, in the same
\* call, a listener of the derived Value subscribed after it
C13_witness ==
  /\ obj = "derive" /\ call.op = "update"
  /\ Len(out) = 2
  /\ out[1].id \in Ups /\ out[2].id \in Downs
  /\ out[2].ev = DerivedEv(1, 0)

\* the listeners of the Mutable that two update calls in a row both found
Both == {id \in Ups : pre.subs[id].kind \in {"onValue", "onEmit"}}

\* the last two calls were update(v1); update(v2) with eq(v1, v2)
TwoUpdates ==
  /\ call.op = "update" /\ call.obj = "mutable"
  /\ call.last.on
  /\ Eq(mEq, call.last.v, call.v)

\* C14 as stated: update(v1); update(v2) with eq(v1, v2) invokes each
\* listener exactly once, for v1, and never for v2.
C14_orig ==
  TwoUpdates =>
    \A id \in Both :
      /\ SelectSeq(call.last.out, LAMBDA c : c.id = id)
           = <<Invoke(id, ValueEv(call.last.v), call.last.v)>>
      /\ Calls(id) = <<>>

\* C14: for all v1, v2 with eq(v1, v2) true, eq an equivalence, the sequence
\* update(v1); update(v2) invokes each listener at most once: exactly once,
\* for v1, when eq(v1, current) did not hold before the first update, not at
\* all when it did; and never for v2.
C14 ==
  TwoUpdates =>
    \A id \in Both :
      /\ SelectSeq(call.last.out, LAMBDA c : c.id = id)
           = IF Eq(mEq, call.last.v, call.last.cur) THEN <<>>
             ELSE <<Invoke(id, ValueEv(call.last.v), call.last.v)>>
      /\ Calls(id) = <<>>

\* update(5); update(6) under an eq that identifies 5 and 6, heard by a
\* listener once, for 5
C14_witness ==
  /\ TwoUpdates
  /\ call.last.v # call.v
  /\ ~Eq(mEq, call.last.v, call.last.cur)
  /\ Both # {}
  /\ mCur = call.last.v

----------------------------------------------------------------------------
(* Element contracts: dirty regions, invalidation, preferred size, frames *)

\* the bounding rectangle of a set of regions, zero when none has any area
BoundingUnion(S) ==
  LET N == {r \in S : ~RectIsEmpty(r)}
  IN IF N = {} THEN RectZero
     ELSE LET x == CHOOSE v \in {r[1] : r \in N} : \A r \in N : v <= r[1]
              y == CHOOSE v \in {r[2] : r \in N} : \A r \in N : v <= r[2]
              xx == CHOOSE v \in {r[1] + r[3] : r \in N} :
                      \A r \in N : r[1] + r[3] <= v
              yy == CHOOSE v \in {r[2] + r[4] : r \in N} :
                      \A r \in N : r[2] + r[4] <= v
          IN <<x, y, xx - x, yy - y>>

\* two rectangles cover the same area
SameRegion(a, b) == (RectIsEmpty(a) /\ RectIsEmpty(b)) \/ a = b

\* C3 as stated: an element's accumulated dirty rectangle is the bounding
\* union of the regions dirty was called with since its last render call,
\* and empty if there was none.
C3_orig ==
  \A e \in Els : SameRegion(dirtyRegion[e], BoundingUnion(issued[e].any))

\* C3: an element's accumulated dirty rectangle is the bounding union of the
\* regions dirty was called with since its last render call whose region
\* intersected its expanded bounds, and empty if there was none; a render
\* call whose region does not intersect them leaves the rectangle as it was.
C3 ==
  \A e \in Els : SameRegion(dirtyRegion[e], BoundingUnion(issued[e].thru))

\* an element dirtied with two regions, neither within the other, whose
\* accumulated rectangle is larger than both
C3_witness ==
  \E e \in Els :
    /\ Cardinality(issued[e].thru) >= 2
    /\ dirtyRegion[e] \notin issued[e].thru
    /\ \E i \in 1..Len(trace) : trace[i].op = "dirty" /\ trace[i].el = e

\* the invalidate calls of the last call that an element made on its parent
Propagated == {i \in 1..Len(trace) :
                 trace[i].op = "invalidate" /\ trace[i].from # NoParent}

\* C4: invalidate() on an already-invalid element makes no call on the
\* parent and changes no validity flag; every invalidate an element makes on
\* its parent follows a valid-to-invalid transition of that element, one
\* call per transition, and an ancestor found invalid passes nothing on.
C4 ==
  /\ (ecall.op = "invalidate" /\ ~epre.valid[ecall.el]) =>
       valid = epre.valid /\ Propagated = {}
  /\ \A i \in Propagated :
       /\ i > 1
       /\ trace[i - 1].op = "invalidate"
       /\ trace[i - 1].el = trace[i].from
       /\ trace[i - 1].was
       /\ trace[i].el = Parent(trace[i].from)
  /\ \A i \in 1..Len(trace) :
       (trace[i].op = "invalidate" /\ ~trace[i].was) =>
         (i + 1) \notin Propagated

\* invalidate() on a valid leaf whose parent is already invalid: one call on
\* the parent, none on the Root
C4_witness ==
  /\ ecall.op = "invalidate" /\ ecall.el = "c"
  /\ epre.valid["c"] /\ ~epre.valid["g"]
  /\ Cardinality(Propagated) = 1
  /\ ~valid["c"]

\* C5 as stated: after any call of invalidate() on an element, valid or
\* already invalid, the cached preferred size is the sentinel.
C5_orig ==
  ecall.op = "invalidate" => psize[ecall.el][1] < 0

\* the render calls the last call made on the Root
RootRenders == {i \in 1..Len(trace) :
                  trace[i].op = "render" /\ trace[i].el = "root"}

\* C6 as stated: Root.update renders exactly when validate() did work or the
\* Root's dirty rectangle is not empty after validation, with that rectangle
\* as the region, returns true exactly then, and always returns with the
\* Root's dirty rectangle empty.
C6_orig ==
  ecall.op = "update" =>
    LET validated == \E i \in 1..Len(trace) :
                       /\ trace[i].op = "validate" /\ trace[i].el = "root"
                       /\ trace[i].ret
        should == validated \/ ~RectIsEmpty(ecall.mid)
    IN /\ (RootRenders # {}) <=> should
       /\ Cardinality(RootRenders) <= 1
       /\ \A i \in RootRenders : trace[i].region = ecall.mid
       /\ ecall.ret <=> should
       /\ RectIsEmpty(dirtyRegion["root"])

----------------------------------------------------------------------------
(* Element contracts: validate, render, setBounds *)

\* the calls of the last call that returned: their places in trace
Returns(op) == {j \in 1..Len(trace) : trace[j].op = op}

\* the calls made inside the call that returned at place j
Inner(j) == (trace[j].at + 1)..(j - 1)

\* C15: validate() on a valid element performs no layout work, changes no
\* state and returns false; on an invalid element it runs the layout
\* recomputation (relayout only when the element is visible), then marks the
\* element valid, and returns true.
C15 ==
  \A j \in Returns("validate") :
    LET ev == trace[j]
        relayouts == {i \in Inner(j) : trace[i].op = "relayout" /\ trace[i].el = ev.el}
    IN IF ev.before.valid[ev.el]
       THEN ~ev.ret /\ ev.after = ev.before /\ Inner(j) = {}
       ELSE /\ ev.ret
            /\ ev.after.valid[ev.el]
            /\ Cardinality(relayouts) = (IF epre.visible[ev.el] THEN 1 ELSE 0)

\* one frame in which the group, invalid and not visible, is validated
\* without a relayout and finds its leaf valid
C15_witness ==
  /\ ~epre.visible["g"]
  /\ \E j \in Returns("validate") :
       trace[j].el = "g" /\ trace[j].ret /\ ~trace[j].before.valid["g"]
  /\ \E j \in Returns("validate") :
       trace[j].el = "c" /\ ~trace[j].ret /\ trace[j].before.valid["c"]

\* C16: render(region) paints nothing and leaves the element's accumulated
\* dirty rectangle unchanged when the element's expanded bounds do not
\* intersect region; otherwise it paints if and only if the element is
\* visible and ends with the element's accumulated dirty rectangle empty.
C16 ==
  \A j \in Returns("rendered") :
    LET ev == trace[j]
        paints == {i \in Inner(j) : trace[i].op = "rerender" /\ trace[i].el = ev.el}
    IN IF ~RectIntersects(expandBounds(ev.before, ev.el, ev.before.bounds[ev.el]),
                          ev.region)
       THEN Inner(j) = {} /\ ev.after = ev.before
       ELSE /\ Cardinality(paints) = (IF epre.visible[ev.el] THEN 1 ELSE 0)
            /\ RectIsEmpty(ev.after.dirtyRegion[ev.el])

\* a render that reaches the group while it is dirty and not visible: the
\* group paints nothing, its rectangle is cleared, the leaf is not reached
C16_witness ==
  /\ ~epre.visible["g"]
  /\ \E j \in Returns("rendered") :
       /\ trace[j].el = "g"
       /\ ~RectIsEmpty(trace[j].before.dirtyRegion["g"])
       /\ RectIsEmpty(trace[j].after.dirtyRegion["g"])
       /\ Inner(j) = {}
       /\ RectIntersects(expandBounds(trace[j].before, "g",
                                      trace[j].before.bounds["g"]),
                         trace[j].region)

\* C17: setBounds(b) with b equal to the current bounds changes nothing
\* (bounds, validity flags, cached preferred size and the dirty rectangles of
\* the element and all its ancestors stay as they were); with a different b,
\* afterwards the bounds equal b, the element is invalid, and its accumulated
\* dirty rectangle contains both the old and the new bounds.
C17 ==
  \A j \in Returns("setBounds") :
    LET ev == trace[j]
        old == ev.before.bounds[ev.el]
    IN IF old = ev.bounds
       THEN ev.after = ev.before /\ Inner(j) = {}
       ELSE /\ ev.after.bounds[ev.el] = ev.bounds
            /\ ~ev.after.valid[ev.el]
            /\ RectContainsRect(ev.after.dirtyRegion[ev.el], old)
            /\ RectContainsRect(ev.after.dirtyRegion[ev.el], ev.bounds)

\* a call in which one element with an area is given other bounds and
\* another is given the bounds it has
C17_witness ==
  /\ \E j \in Returns("setBounds") :
       /\ trace[j].before.bounds[trace[j].el] = trace[j].bounds
       /\ ~RectIsEmpty(trace[j].bounds)
  /\ \E j \in Returns("setBounds") :
       /\ trace[j].before.bounds[trace[j].el] # trace[j].bounds
       /\ ~RectIsEmpty(trace[j].before.bounds[trace[j].el])
       /\ ~RectIsEmpty(trace[j].bounds)

----------------------------------------------------------------------------
(* Element contracts: the walk of dirty up the tree, the cached size *)

\* the last call was dirty(region) on an element, made by a client
DirtyCall == ecall.op = "dirty"

\* the accumulated rectangle the last call found on e held the region
Held(e) == RectContainsRect(epre.dirtyRegion[e], ecall.region)

\* the dirty calls the last call made on the parent of its element
ParentDirty == {i \in 1..Len(trace) :
                  trace[i].op = "dirty" /\ trace[i].el = Parent(ecall.el)}

\* C18: dirty(region) on an element whose accumulated dirty rectangle
\* already fully contains region changes no element's state and makes no
\* call on the parent; propagation up the tree stops at the first ancestor
\* whose accumulated rectangle already contains the region.
C18 ==
  DirtyCall =>
    /\ Held(ecall.el) =>
         /\ Snap(ES) = [bounds |-> epre.bounds, psize |-> epre.psize,
                        valid |-> epre.valid, dirtyRegion |-> epre.dirtyRegion]
         /\ Len(trace) = 1
    /\ trace[1].el = ecall.el /\ ~trace[1].fromChild
    /\ \A i \in 1..Len(trace) :
         /\ trace[i].op = "dirty"
         /\ i > 1 => /\ trace[i].el = Parent(trace[i - 1].el)
                     /\ trace[i].fromChild
                     /\ ~Held(trace[i - 1].el)
         /\ i = Len(trace) => Held(trace[i].el) \/ Parent(trace[i].el) = NoParent
         /\ Held(trace[i].el) => dirtyRegion[trace[i].el] = epre.dirtyRegion[trace[i].el]
    /\ \A e \in Els :
         dirtyRegion[e] # epre.dirtyRegion[e] =>
           \E i \in 1..Len(trace) : trace[i].el = e

\* dirty(region) on the leaf, whose rectangle does not hold the region,
\* stopped by the group, whose larger rectangle holds it: the Root is not
\* called
C18_witness ==
  /\ DirtyCall /\ ecall.el = "c"
  /\ ~Held("c") /\ Held("g")
  /\ ~RectIsEmpty(ecall.region)
  /\ epre.dirtyRegion["g"] # ecall.region
  /\ Len(trace) = 2

\* C19 as stated: the parent's dirty is called once with the new accumulated
\* region, the union, not with the region that was passed in.
C19_orig ==
  (DirtyCall /\ ~Held(ecall.el) /\ Parent(ecall.el) # NoParent) =>
    /\ dirtyRegion[ecall.el] = RectUnion(epre.dirtyRegion[ecall.el], ecall.region)
    /\ Cardinality(ParentDirty) = 1
    /\ \A i \in ParentDirty : trace[i].region = dirtyRegion[ecall.el]

\* C19: when dirty(region) is called on an element whose accumulated dirty
\* rectangle does not contain region, the accumulated rectangle is replaced
\* by the union of itself and region, and the parent's dirty is called
\* exactly once, with the region that was passed in.
C19 ==
  (DirtyCall /\ ~Held(ecall.el)) =>
    /\ dirtyRegion[ecall.el] = RectUnion(epre.dirtyRegion[ecall.el], ecall.region)
    /\ Parent(ecall.el) # NoParent =>
         /\ Cardinality(ParentDirty) = 1
         /\ \A i \in ParentDirty :
              trace[i].region = ecall.region /\ trace[i].fromChild

\* dirty(region) on a leaf that is dirty elsewhere: its rectangle grows to a
\* union larger than the region, and the group is called with the region
C19_witness ==
  /\ DirtyCall /\ ecall.el = "c"
  /\ ~RectIsEmpty(epre.dirtyRegion["c"])
  /\ ~Held("c")
  /\ dirtyRegion["c"] # ecall.region
  /\ ParentDirty # {}

\* the computePreferredSize calls the last call made on its element
Recomputed == {i \in 1..Len(trace) :
                 trace[i].op = "computePreferredSize" /\ trace[i].el = ecall.el}

\* the last call read the preferred size of the element that the call
\* before it, an invalidate(), found with a cached size
ReadAfterInvalidate ==
  /\ ecall.op = "invalidate" /\ epre.psize[ecall.el][1] >= 0
  /\ ecall'.op = "preferredSize" /\ ecall'.el = ecall.el

\* C20 as stated: between two invalidations of an element its
\* computePreferredSize runs at most once however often preferredSize is
\* read (a read that finds a cached size returns it and recomputes nothing),
\* and the first read after invalidate() on an element with a cached size
\* recomputes exactly once.
C20_orig ==
  [][/\ ecall'.op = "preferredSize" =>
          /\ Cardinality(Recomputed') <= 1
          /\ psize[ecall'.el][1] >= 0 =>
               Recomputed' = {} /\ ecall'.ret = psize[ecall'.el]
     /\ ReadAfterInvalidate => Cardinality(Recomputed') = 1]_vars

----------------------------------------------------------------------------
(* Collection contracts: iteration order, clear, sizeValue, map(fn) *)

\* the keys of a map in iteration order
KeySeq(d) == [i \in 1..Len(d) |-> d[i].k]

\* no entry occurs twice
NoDup(s) == \A i, j \in 1..Len(s) : s[i] = s[j] => i = j

\* the entries present before and after are in the order they were in, and
\* an entry that was absent before is the last one
OrderKept(old, new) ==
  /\ NoDup(new)
  /\ \A x, y \in Range(old) \cap Range(new) :
       Index(old, x) < Index(old, y) <=> Index(new, x) < Index(new, y)
  /\ \A x \in Range(new) \ Range(old) : x = new[Len(new)]

\* C21: iteration over a mutable set or map yields the present entries in
\* the order of their most recent insertion while absent: every call leaves
\* the entries that stay in their order, re-adding a present element or
\* overwriting a present key included, and puts an entry that was absent last.
C21 ==
  /\ obj = "set" => OrderKept(pre.sdata, sdata)
  /\ obj \in {"map", "switch"} =>
       \A m \in Maps : OrderKept(KeySeq(pre.mdata[m]), KeySeq(mdata[m]))

\* a present key that is not the last one is overwritten with another value
C21_witness ==
  /\ call.op = "set" /\ call.obj \in Maps
  /\ Len(mdata[call.obj]) = 2
  /\ pre.mdata[call.obj][1].k = call.key
  /\ pre.mdata[call.obj][1].v # call.value
  /\ mdata[call.obj][1] = [k |-> call.key, v |-> call.value]

\* the entries the collection of the last call held before the call
Held0 ==
  CASE call.obj = "list" -> pre.elems
    [] call.obj = "set" -> pre.sdata
    [] OTHER -> pre.mdata[call.obj]

\* the entries it holds now
HeldNow ==
  CASE call.obj = "list" -> elems
    [] call.obj = "set" -> sdata
    [] OTHER -> mdata[call.obj]

\* the onChange listeners registered on the collection when the call began
ChangeListeners ==
  {id \in Range(pre.lns[call.obj]) : pre.subs[id].kind = "onChange"}

\* the events the last call handed to the callback of subscription id
EventsTo(id) ==
  LET cs == SelectSeq(out, LAMBDA c : c.id = id)
  IN [i \in 1..Len(cs) |-> cs[i].ev]

\* C22: clear() on a list, set or map holding n entries terminates after n
\* deletions, delivers exactly n deleted events to each onChange listener,
\* one per removed entry (for a list with indices n-1 down to 0), and leaves
\* the collection empty.
C22 ==
  call.op = "clear" =>
    LET n == Len(Held0)
    IN /\ HeldNow = <<>>
       /\ call.rounds = n
       /\ Len(call.events) = n
       /\ \A i \in 1..n :
            /\ call.events[i].type = "deleted"
            /\ call.obj = "list" =>
                 /\ call.events[i].index = n - i
                 /\ call.events[i].prev = pre.elems[n - i + 1]
            /\ call.obj = "set" => call.events[i].elem = pre.sdata[i]
            /\ call.obj \in Maps =>
                 /\ call.events[i].key = pre.mdata[call.obj][i].k
                 /\ call.events[i].prev = pre.mdata[call.obj][i].v
       /\ \A id \in ChangeListeners : EventsTo(id) = call.events

\* a list of two elements cleared while two onChange listeners are registered
C22_witness ==
  /\ call.op = "clear" /\ call.obj = "list"
  /\ Len(pre.elems) = 2
  /\ Cardinality(ChangeListeners) = 2
  /\ Len(out) = 4

\* the observers of sizeValue registered when the last call began
SizeObservers == Range(pre.lns["size"])

\* the number of entries of the collection whose sizeValue is watched (a
\* SwitchMap has the entries of the map selected), before and after the call
SizeBefore ==
  CASE obj = "set" -> Len(pre.sdata)
    [] obj = "map" -> Len(pre.mdata["mapA"])
    [] OTHER -> Len(pre.mdata[pre.sel])
SizeNow ==
  CASE obj = "set" -> Len(sdata)
    [] obj = "map" -> Len(mdata["mapA"])
    [] OTHER -> Len(mdata[sel])

\* C23 as stated: for every reactive set and map, a map created by
\* RMap.fromValue across switches of its underlying map included, sizeValue
\* notifies its observers only when the number of entries changes, each
\* notification carries the size after the change as the new value and the
\* size before it as the old value (a call that removes several entries goes
\* from the size before the call to the size after it, one step at a time),
\* and overwriting the value of a present key notifies nobody.
C23_orig ==
  obj \in {"set", "map", "switch"} =>
    \A id \in SizeObservers :
      LET ns == EventsTo(id)
      IN /\ SizeBefore = SizeNow => ns = <<>>
         /\ ns # <<>> =>
              /\ ns[1].prev = SizeBefore
              /\ ns[Len(ns)].value = SizeNow
              /\ \A i \in 1..Len(ns) : ns[i].value # ns[i].prev
              /\ \A i \in 1..(Len(ns) - 1) : ns[i + 1].prev = ns[i].value
         /\ (call.op = "set" /\ MapHas(pre.mdata[call.obj], call.key)) => ns = <<>>

\* the places in the collections' listener arrays held by the listener of a
\* mapped Source (the array of the Value a SwitchMap follows is not one)
Registrations ==
  {<<o, i>> \in (Objects \ {"sel"}) \X (1..(2 * MaxSubs)) :
     /\ i <= Len(lns[o])
     /\ lns[o][i] \in DOMAIN subs
     /\ subs[lns[o][i]].kind = "map"}

\* the calls of the function handed to map that the last call made
FnCalls == {i \in 1..Len(out) : out[i].ev.type = "fn"}

\* C24: the Source returned by map(fn) on a list, set or map holds a listener
\* on the collection only while it has a subscriber of its own: exactly one
\* onChange registration while it has any, none while it has none, and a
\* mutation made while it has none calls fn zero times.
C24 ==
  obj \in CollPieces =>
    /\ Cardinality(Registrations) = (IF lns["mapped"] # <<>> THEN 1 ELSE 0)
    /\ pre.lns["mapped"] = <<>> => FnCalls = {}
    /\ (pre.lns["mapped"] # <<>> /\ call.op \in {"append", "add"} /\ out # <<>>) =>
         Cardinality(FnCalls) = 1

\* the Source had a subscriber, lost it, and the list is then appended to:
\* nothing is registered on the list and nothing is called
C24_witness ==
  /\ call.op = "append"
  /\ elems # pre.elems
  /\ \E id \in DOMAIN subs : subs[id].obj = "mapped" /\ subs[id].rm
  /\ lns["mapped"] = <<>>
  /\ lns["list"] = <<>>
  /\ out = <<>>

(* Pointer interactions, the duplicate press, missing styles, disposal *)

\* the last call was a mousemove, mouseup or mousecancel for a button that
\* had an active interaction
MidInteraction ==
  /\ ui.ev.type \in MouseTypes \ {"mousedown"}
  /\ ui.pre.interacts[ui.ev.button] # NoIact

\* what the interaction is called with for an event of the type
IactCall(type) ==
  CASE type = "mousemove" -> "move"
    [] type = "mouseup" -> "release"
    [] OTHER -> "cancel"

\* C25 as stated: a mousemove, mouseup or mousecancel for a button with an
\* active interaction is delivered to the interaction's move, release or
\* cancel and to nothing else
C25_orig ==
  MidInteraction =>
    ui.log = <<Delivery("iact", ui.pre.interacts[ui.ev.button],
                        IactCall(ui.ev.type))>>

\* C25: a mousemove, mouseup or mousecancel for a button with an active
\* interaction is delivered first to the interaction's move, release or
\* cancel; no element's mouse-down handling runs for it; a mousemove is
\* delivered to nothing else, and after a mouseup or mousecancel, once the
\* interaction has ended, the elements the pointer has left or entered get
\* their hover leave and enter handling for the same event
C25 ==
  MidInteraction =>
    /\ Len(ui.log) >= 1
    /\ ui.log[1] = Delivery("iact", ui.pre.interacts[ui.ev.button],
                            IactCall(ui.ev.type))
    /\ \A i \in 2..Len(ui.log) :
         /\ ui.ev.type # "mousemove"
         /\ ui.interacts[ui.ev.button] = NoIact
         /\ ui.log[i].to = "element"
         /\ ui.log[i].what \in {"enter", "leave"}

\* a mouseup ended an interaction and the elements under the pointer got
\* their hover handling for it
C25_witness ==
  /\ MidInteraction
  /\ ui.ev.type = "mouseup"
  /\ Len(ui.log) > 1
  /\ ui.log[2].what = "enter"

\* C26 as stated: a mousedown for a button that has an active interaction
\* raises an error, the active interaction is not cancelled and no new one is
\* started
C26_orig ==
  (ui.ev.type = "mousedown" /\ ui.pre.interacts[ui.ev.button] # NoIact) =>
    /\ ui.raised
    /\ ui.log = <<>>

\* C27 as stated: looking up a style entry that is missing, a per-state
\* style or a named definition, raises no error and yields the empty style
C27_orig ==
  (ui.ev.type \in {"getStyle", "resolve"} /\ ui.ev.missing) =>
    /\ ~ui.raised
    /\ ui.ev.value = EmptyStyle

RECURSIVE UiDescendants(_)
\* an element and the elements below it
UiDescendants(e) ==
  {e} \cup UNION {UiDescendants(UiChildren(e)[i]) : i \in 1..Len(UiChildren(e))}

\* C28 as stated: a disposed element has no listener left on any signal, no
\* emission calls a listener of an element disposed before it, and dispose()
\* disposes every descendant
C28_orig ==
  /\ \A r \in ui.regs : r.el \notin ui.disposed
  /\ \A i \in 1..Len(ui.log) :
       ui.log[i].to = "listener" => ui.log[i].el \notin ui.pre.disposed
  /\ \A e \in ui.disposed : UiDescendants(e) \subseteq ui.disposed

(* validate() on the Root *)

\* the last call validated the Root: Root.update and Root.setSize do
RootValidated == ecall.op \in {"update", "setSize"}

C31_orig ==
  \A e \in Els : (~valid[e] /\ Parent(e) # NoParent) => ~valid[Parent(e)]

\* C32 as stated: the accumulated dirty rectangle of an element is contained
\* in that of its parent, and the region of a dirty(region) call that has
\* returned is contained in the Root's accumulated dirty rectangle
C32_orig ==
  /\ \A e \in Els :
       Parent(e) # NoParent =>
         RectContainsRect(dirtyRegion[Parent(e)], dirtyRegion[e])
  /\ ecall.op = "dirty" => RectContainsRect(dirtyRegion["root"], ecall.region)

\* C33 as stated: a Root.update that comes right after a Root.update, with
\* no other call between the two, performs no render and returns false
C33_orig ==
  (ecall.op = "update" /\ ecall.after = "update") =>
    /\ ~ecall.ret
    /\ RootRenders = {}

\* an element and the elements above it
UpFrom(e) == {e} \cup {a \in Els : a = Parent(e) \/ (Parent(e) # NoParent /\ a = Parent(Parent(e)))}

\* the dirty calls of the last call that did not come from a child
OwnDirty == {i \in 1..Len(trace) : trace[i].op = "dirty" /\ ~trace[i].fromChild}

Times(ls, id) == Cardinality({i \in DOMAIN ls : ls[i] = id})

MirrorList(copy, ev) ==
  CASE ev.type = "added" -> SpliceIn(copy, ev.index, ev.elem)
    [] ev.type = "updated" ->
         [i \in 1..Len(copy) |-> IF i = ev.index + 1 THEN ev.elem ELSE copy[i]]
    [] OTHER -> SpliceOut(copy, ev.index)
MirrorSet(copy, ev) ==
  IF ev.type = "added" THEN copy \cup {ev.elem} ELSE copy \ {ev.elem}
MirrorMap(copy, ev) ==
  LET rest == {en \in copy : en.k # ev.key}
  IN IF ev.type = "set" THEN rest \cup {[k |-> ev.key, v |-> ev.value]} ELSE rest

RECURSIVE Mirror(_, _)
\* the copy after a sequence of change events
Mirror(copy, evs) ==
  IF evs = <<>> THEN copy
  ELSE Mirror(CASE obj = "list" -> MirrorList(copy, Head(evs))
                [] obj = "set" -> MirrorSet(copy, Head(evs))
                [] OTHER -> MirrorMap(copy, Head(evs)),
              Tail(evs))

\* what the collection the client subscribes to held when the last call
\* began, and what it holds now
ContentsBefore ==
  CASE obj = "list" -> pre.elems
    [] obj = "set" -> Range(pre.sdata)
    [] obj = "switch" -> Range(pre.mdata[pre.sel])
    [] OTHER -> Range(pre.mdata["mapA"])
ContentsNow ==
  CASE obj = "list" -> elems
    [] obj = "set" -> Range(sdata)
    [] obj = "switch" -> Range(mdata[sel])
    [] OTHER -> Range(mdata["mapA"])

\* the onChange subscriptions that were live when the last call began and
\* still are
Mirrors ==
  {id \in DOMAIN pre.subs :
     /\ pre.subs[id].kind = "onChange" /\ ~pre.subs[id].rm
     /\ ~subs[id].rm}

\* C36: a copy that equalled the collection's contents when the last call
\* began, with the change events its listener received during the call
\* applied to it, equals the contents when the call has returned; a copy
\* taken at subscription therefore stays equal to the collection, for a list,
\* a set, a map and a SwitchMap across switches
C36 ==
  obj \in {"list", "set", "map", "switch"} =>
    \A id \in Mirrors : Mirror(ContentsBefore, EventsTo(id)) = ContentsNow

\* the Value of a SwitchMap selected another map, and a listener's copy
\* followed through a deleted and a set event
C36_witness ==
  /\ obj = "switch"
  /\ call.op = "update" /\ call.obj = "sel"
  /\ \E id \in Mirrors :
       /\ \E i \in 1..Len(EventsTo(id)) : EventsTo(id)[i].type = "deleted"
       /\ \E i \in 1..Len(EventsTo(id)) : EventsTo(id)[i].type = "set"
       /\ ContentsNow # ContentsBefore

\* what a value received from the current source does to the owner: dirty,
\* then invalidate
OwnerTold ==
  <<Delivery("owner", "lbl", "dirty"), Delivery("owner", "lbl", "invalidate")>>

C38_noop ==
  \/ /\ call.op = "update" /\ call.obj = "list"
     /\ ElemEq(lEq, call.elem, pre.elems[call.index + 1])
  \/ call.op = "add" /\ call.obj = "set" /\ SetHas(pre.sdata, call.elem)
  \/ call.op = "delete" /\ call.obj = "set" /\ ~SetHas(pre.sdata, call.elem)
  \/ /\ call.op = "delete" /\ call.obj \in Maps
     /\ ~MapHas(pre.mdata[call.obj], call.key)

\* C38: list.update(i, e) with eq(e, elemAt(i)), set.add of an element the
\* set has, and set.delete / map.delete of an absent element or key call no
\* listener and leave the contents as they were; set.delete and map.delete
\* return true exactly when the call took an entry out.
C38 ==
  /\ C38_noop => out = <<>> /\ After(call.obj) = Before(call.obj)
  /\ (call.op = "delete" /\ call.obj \in {"set"} \cup Maps) =>
       (call.ret <=> Len(After(call.obj)) < Len(Before(call.obj)))

\* a set.delete of an absent element while the set has a listener, the list
\* or a map not being the object called
C38_witness ==
  /\ call.op = "delete" /\ call.obj = "set"
  /\ ~SetHas(pre.sdata, call.elem)
  /\ pre.sdata # <<>>
  /\ Registered # {}
  /\ ~call.ret

\* the interactions that have had neither release nor cancel
ActiveIacts == {i \in DOMAIN ui.iacts : ui.iacts[i].terminal = 0}

====
